---------------------------- MODULE Spec2Model ----------------------------
(***************************************************************************)
(* A model of the collection-and-dispatch pipeline of ceilometer:          *)
(*   - the Gnocchi dispatcher (ceilometer/dispatcher/gnocchi.py),          *)
(*   - the compute pollsters (ceilometer/compute/pollsters/*.py).          *)
(* Strings that the code orders or glob-matches (resource ids, project     *)
(* ids, meter names, patterns) are sequences of one-character strings.     *)
(***************************************************************************)
EXTENDS Integers, Sequences, FiniteSets, TLC

(***************************************************************************)
(* Bounds of the model.                                                    *)
(***************************************************************************)
\* longest batch handed to record_metering_data
MaxBatch == 2
\* record_metering_data calls made by one worker
MaxDispatch == 2
\* backend answers that the stored backend state does not determine
MaxFaults == 1

(***************************************************************************)
(* Values.                                                                 *)
(***************************************************************************)
None == "None"
\* None where the code holds a project id
NoProject == <<>>
\* None where the code holds a hash (no Python hash is -1)
NoHash == -1

\* byte values of the characters used (str comparison is bytewise)
CharCode(c) ==
    CASE c = "*" -> 42 [] c = "." -> 46 [] c = "1" -> 49 [] c = "2" -> 50
      [] c = "?" -> 63 [] c = "c" -> 99 [] c = "d" -> 100 [] c = "e" -> 101
      [] c = "g" -> 103 [] c = "i" -> 105 [] c = "m" -> 109 [] c = "o" -> 111
      [] c = "p" -> 112 [] c = "r" -> 114 [] c = "s" -> 115 [] c = "u" -> 117
      [] c = "z" -> 122

\* a < b for two strings, as Python compares str
RECURSIVE StrLess(_, _)
StrLess(a, b) ==
    IF b = <<>> THEN FALSE
    ELSE IF a = <<>> THEN TRUE
    ELSE IF CharCode(Head(a)) # CharCode(Head(b))
         THEN CharCode(Head(a)) < CharCode(Head(b))
    ELSE StrLess(Tail(a), Tail(b))

\* fnmatch.fnmatch(name, pat) with the wildcards * and ?
RECURSIVE Fnmatch(_, _)
Fnmatch(name, pat) ==
    IF pat = <<>> THEN name = <<>>
    ELSE IF Head(pat) = "*"
         THEN \/ Fnmatch(name, Tail(pat))
              \/ (name # <<>> /\ Fnmatch(Tail(name), pat))
    ELSE IF name = <<>> THEN FALSE
    ELSE /\ (Head(pat) = "?" \/ Head(pat) = Head(name))
         /\ Fnmatch(Tail(name), Tail(pat))

R1 == <<"r", "1">>
R2 == <<"r", "2">>
P1 == <<"p", "1">>
\* the id of the tenant named by filter_project
GP == <<"g", "p">>

Cpu == <<"c", "p", "u">>
DiskRead == <<"d", ".", "r">>
Img == <<"i", "m", "g">>
Mem == <<"m", "e", "m">>
SwiftObj == <<"s", ".", "o">>
Unk == <<"z", "z">>


(***************************************************************************)
(* Resource definitions: the declarative configuration the dispatcher      *)
(* loads at construction.  Order is the declared order.                    *)
(***************************************************************************)
EmptyMap == [k \in {} |-> None]

\* dispatcher_gnocchi.archive_policy (default None)
default_archive_policy == None

resources_definition ==
    << [resource_type |-> "instance",
        metrics |-> << Cpu, <<"d", ".", "*">> >>,
        attributes |-> [display_name |-> "display_name", host |-> "host"],
        archive_policy |-> "low", ignore |-> FALSE],
       [resource_type |-> "image",
        metrics |-> << <<"i", "*">> >>,
        attributes |-> EmptyMap,
        archive_policy |-> None, ignore |-> TRUE],
       [resource_type |-> "swift_account",
        metrics |-> << <<"s", ".", "?">> >>,
        attributes |-> EmptyMap,
        archive_policy |-> None, ignore |-> FALSE],
       [resource_type |-> "generic",
        metrics |-> << <<"c", "*">>, Mem, Img >>,
        attributes |-> [display_name |-> "host"],
        archive_policy |-> None, ignore |-> FALSE] >>

\* ResourcesDefinition.match
match(rd, metric_name) ==
    \E i \in 1..Len(rd.metrics) : Fnmatch(metric_name, rd.metrics[i])

\* declarative.Definition.parse: the value of the configured field of the
\* sample, None when the sample has none
parse(field, sample) == sample.resource_metadata[field]

\* ResourcesDefinition.attributes
attributes(rd, sample) ==
    LET names == {n \in DOMAIN rd.attributes :
                     parse(rd.attributes[n], sample) # None}
    IN [n \in names |-> parse(rd.attributes[n], sample)]

\* ResourcesDefinition.metrics: keyed by the declared patterns
metrics(rd) ==
    LET archive_policy == IF rd.archive_policy # None THEN rd.archive_policy
                          ELSE default_archive_policy
    IN [t \in {rd.metrics[i] : i \in 1..Len(rd.metrics)} |->
           IF archive_policy = None THEN "{}" ELSE archive_policy]

\* a lookup that would prefer a definition that lists the meter name
\* itself to the first one that matches it
GetMostSpecificResourceDefinition(metric_name) ==
    LET hits == {i \in 1..Len(resources_definition) :
                    match(resources_definition[i], metric_name)}
        literal == {i \in hits :
                       \E j \in 1..Len(resources_definition[i].metrics) :
                          resources_definition[i].metrics[j] = metric_name}
        best == IF literal # {} THEN literal ELSE hits
    IN IF hits = {} THEN 0
       ELSE CHOOSE i \in best : \A j \in best : i <= j

\* a lookup that would return the last matching definition instead of the
\* first
GetLastResourceDefinition(metric_name) ==
    LET hits == {i \in 1..Len(resources_definition) :
                    match(resources_definition[i], metric_name)}
    IN IF hits = {} THEN 0
       ELSE CHOOSE i \in hits : \A j \in hits : i >= j

\* GnocchiDispatcher._get_resource_definition: index of the first match, 0
\* when the loop falls through (returns None)
get_resource_definition(metric_name) ==
    LET hits == {i \in 1..Len(resources_definition) :
                    match(resources_definition[i], metric_name)}
    IN IF hits = {} THEN 0
       ELSE CHOOSE i \in hits : \A j \in hits : i <= j

\* GnocchiDispatcher._is_swift_account_sample
is_swift_account_sample(sample) ==
    \E i \in 1..Len(resources_definition) :
        /\ resources_definition[i].resource_type = "swift_account"
        /\ match(resources_definition[i], sample.counter_name)

\* a filter that would take every sample on the service project's id for
\* the backend's own, whatever its meter
IsGnocchiActivityOfAnyMeter(filter_service_activity, project_id, sample) ==
    /\ filter_service_activity
    /\ \/ sample.project_id = project_id
       \/ sample.resource_id = project_id

\* GnocchiDispatcher._is_gnocchi_activity, once the project id is known
is_gnocchi_activity(filter_service_activity, project_id, sample) ==
    /\ filter_service_activity
    /\ \/ sample.project_id = project_id
       \/ /\ sample.resource_id = project_id
          /\ is_swift_account_sample(sample)

(***************************************************************************)
(* Samples.                                                                *)
(***************************************************************************)
MkSample(rid, name, user, project, ts, dn, host) ==
    [resource_id |-> rid, counter_name |-> name, user_id |-> user,
     project_id |-> project, timestamp |-> ts, counter_volume |-> ts,
     resource_metadata |-> [display_name |-> dn, host |-> host]]

Samples ==
    { MkSample(R1, Cpu, "u1", P1, 1, "a", None),
      MkSample(R1, Cpu, "u2", P1, 2, "b", None),
      MkSample(R1, Mem, "u1", P1, 1, None, "b"),
      MkSample(R1, DiskRead, "u1", P1, 1, None, None),
      MkSample(R1, Img, "u1", P1, 1, "a", None),
      MkSample(R1, Unk, "u1", P1, 1, "a", None),
      MkSample(R2, Cpu, "u1", P1, 1, "a", None),
      MkSample(R2, Cpu, "u1", P1, 2, None, None),
      MkSample(R2, Mem, "u1", P1, 1, None, "a"),
      MkSample(R2, SwiftObj, "u1", GP, 1, None, None),
      MkSample(GP, SwiftObj, "u1", P1, 1, None, None),
      MkSample(GP, Cpu, "u1", P1, 1, "a", None) }

\* lists of distinct samples of length n
RECURSIVE SeqsOfLen(_)
SeqsOfLen(n) ==
    IF n = 0 THEN {<<>>}
    ELSE {Append(p[1], p[2]) :
             p \in {q \in SeqsOfLen(n - 1) \X Samples :
                       \A i \in 1..Len(q[1]) : q[1][i] # q[2]}}

\* the batches a caller may hand to record_metering_data
Batches == UNION {SeqsOfLen(n) : n \in 0..MaxBatch}


(***************************************************************************)
(* record_metering_data: filter, sort, group.                              *)
(***************************************************************************)
\* the sort key (resource_id, counter_name), compared as Python tuples
\* a sort on the resource id alone
KeyLessByResource(s, t) == StrLess(s.resource_id, t.resource_id)

KeyLess(s, t) ==
    \/ StrLess(s.resource_id, t.resource_id)
    \/ /\ s.resource_id = t.resource_id
       /\ StrLess(s.counter_name, t.counter_name)

\* x goes behind every element whose key is not greater: list.sort is stable
RECURSIVE Insert(_, _)
Insert(x, sorted) ==
    IF sorted = <<>> THEN <<x>>
    ELSE IF KeyLess(x, Head(sorted)) THEN <<x>> \o sorted
    ELSE <<Head(sorted)>> \o Insert(x, Tail(sorted))

\* data.sort(key=lambda s: (s['resource_id'], s['counter_name']))
RECURSIVE Sort(_)
Sort(data) ==
    IF data = <<>> THEN <<>>
    ELSE Insert(data[Len(data)], Sort(SubSeq(data, 1, Len(data) - 1)))

\* [s for s in data if not self._is_gnocchi_activity(s)]
RECURSIVE Filter(_, _, _)
Filter(data, filter_service_activity, project_id) ==
    IF data = <<>> THEN <<>>
    ELSE (IF is_gnocchi_activity(filter_service_activity, project_id,
                                 Head(data))
          THEN <<>> ELSE <<Head(data)>>)
         \o Filter(Tail(data), filter_service_activity, project_id)

\* itertools.groupby(samples, key=itemgetter('counter_name')): runs of
\* consecutive samples with the same meter name
RECURSIVE GroupByMetric(_)
GroupByMetric(samples) ==
    IF samples = <<>> THEN <<>>
    ELSE LET rest == GroupByMetric(Tail(samples))
             s == Head(samples)
         IN IF rest # <<>> /\ rest[1].metric_name = s.counter_name
            THEN <<[metric_name |-> s.counter_name,
                    samples |-> <<s>> \o rest[1].samples]>> \o Tail(rest)
            ELSE <<[metric_name |-> s.counter_name, samples |-> <<s>>]>>
                 \o rest

\* itertools.groupby(data, key=itemgetter('resource_id')), each run
\* grouped again by meter name
RECURSIVE GroupByResource(_)
GroupByResource(data) ==
    IF data = <<>> THEN <<>>
    ELSE LET rest == GroupByResource(Tail(data))
             s == Head(data)
         IN IF rest # <<>> /\ rest[1].resource_id = s.resource_id
            THEN <<[resource_id |-> s.resource_id,
                    samples |-> <<s>> \o rest[1].samples]>> \o Tail(rest)
            ELSE <<[resource_id |-> s.resource_id, samples |-> <<s>>]>>
                 \o rest

\* the resource groups record_metering_data walks: resource_id and its
\* metric_grouped_samples
Groups(data) ==
    LET byres == GroupByResource(Sort(data))
    IN [i \in 1..Len(byres) |->
           [resource_id |-> byres[i].resource_id,
            metric_groups |-> GroupByMetric(byres[i].samples)]]

(***************************************************************************)
(* The attribute hash and the cache key.                                   *)
(***************************************************************************)
\* width of the model's hash values
HashMod == 8

RECURSIVE StrHash(_)
StrHash(str) ==
    IF str = <<>> THEN 0
    ELSE (CharCode(Head(str)) + 3 * StrHash(Tail(str))) % HashMod

\* hash of one (key, value) item of the resource
ItemHash(k, v) ==
    CASE k \in {"id", "project_id"} -> (StrHash(v) + 1) % HashMod
      [] k = "user_id" -> IF v = "u1" THEN 1 ELSE 2
      [] k = "display_name" -> IF v = "a" THEN 3 ELSE 5
      [] k = "host" -> IF v = "a" THEN 4 ELSE 6

\* hash(frozenset(resource_info.items())): a combination of the items'
\* hashes that does not depend on their order
RECURSIVE SumHash(_, _)
SumHash(info, keys) ==
    IF keys = {} THEN 0
    ELSE LET k == CHOOSE x \in keys : TRUE
         IN (ItemHash(k, info[k]) + SumHash(info, keys \ {k})) % HashMod

\* resource_info of _check_resource_cache: the resource without 'metrics'
Info(resource_data) ==
    [k \in DOMAIN resource_data \ {"metrics"} |-> resource_data[k]]

\* attribute_hash of _check_resource_cache
attribute_hash_of(resource_data) ==
    SumHash(Info(resource_data), DOMAIN Info(resource_data))

\* a key the cache holds nothing under: cache.get(key) is None
NoEntry == [value |-> NoHash, time |-> 0]

\* _check_resource_cache against the cache c: the hash when the cached one
\* differs, None otherwise
check_resource_cache(c, key, resource_data) ==
    IF c[key].value # attribute_hash_of(resource_data)
    THEN attribute_hash_of(resource_data) ELSE NoHash

\* "if attribute_hash:"
Truthy(attribute_hash) == attribute_hash # NoHash /\ attribute_hash # 0

\* cache_key_mangler: uuid5 of the key under a fixed namespace, as hex
cache_key_mangler(key) == <<"uuid5">> \o key


(***************************************************************************)
(* State.                                                                  *)
(***************************************************************************)
Workers == {"w1", "w2"}
Dispatchers == {"d1", "d2"}
Sites == {"s1", "s2"}
ResourceIds == {R1, R2, GP}
CacheKeys == {cache_key_mangler(r) : r \in ResourceIds}

VARIABLES
    proc,               \* worker -> the GnocchiDispatcher it runs in
    site,               \* dispatcher -> the cache and backend it talks to
    conf,               \* dispatcher -> [cache, filter_service_activity]
    gnocchi_project_id, \* dispatcher -> self._gnocchi_project_id
    project_id_lock,    \* dispatcher -> holder of _gnocchi_project_id_lock
    resource_lock,      \* dispatcher -> holder of _gnocchi_resource_lock
    cache,              \* site -> cache key -> stored hash and the time
                        \* it is kept (cache.set), or NoEntry
    backend,            \* site -> the resources and metrics Gnocchi holds
    faults,             \* backend answers left that its state does not fix
    inputs,             \* worker -> what its caller hands it: any batch,
                        \* one batch, a reordering of it, or at most
                        \* one sample of one resource
    pc,                 \* worker -> where it stands in record_metering_data
    loc,                \* worker -> the local variables of its call
    calls,              \* worker -> backend calls of its current dispatch
    log,                \* worker -> LOG records of its current dispatch
    result,             \* worker -> how its last dispatch ended
    dispatched,         \* worker -> record_metering_data calls made
    poll,               \* the get_samples call of a pollster under way
    disc,               \* the InstanceDiscovery object, its clock and
                        \* what its last discover call did
    ks,                 \* the AgentManager's keystone fields and what its
                        \* last access did
    load                \* the resource definition file and what loading
                        \* it at the dispatcher's construction came to

dvars == <<proc, site, conf, gnocchi_project_id, project_id_lock,
           resource_lock, cache, backend, faults, inputs, pc, loc, calls,
           log, result, dispatched, load>>

vars == <<dvars, poll, disc, ks>>

NoLocals ==
    [data |-> <<>>, groups |-> <<>>, gi |-> 0, mi |-> 0,
     resource_extra |-> EmptyMap, resource |-> EmptyMap,
     resource_type |-> None, metric_name |-> <<>>, measures |-> <<>>,
     attribute_hash |-> NoHash]

\* no get_samples call yet
NoPoll ==
    [variant |-> None, resources |-> <<>>, i |-> 0, out |-> <<>>,
     plog |-> <<>>, attempts |-> <<>>, status |-> "none", raised |-> None]

\* no time yet: self.last_run = None
NoTime == -1

\* InstanceDiscovery.__init__, at time 0 of the model's clock
NewDiscovery ==
    [last_run |-> NoTime, instances |-> EmptyMap, now |-> 0,
     ticked |-> FALSE, n |-> 0, did |-> "nothing", since |-> NoTime,
     raised |-> FALSE, returned |-> {}, mentioned |-> {},
     reported |-> [i \in {"i1", "i2"} |-> "unreported"]]

\* no client, no exception: self._keystone = None
NoClient == 0

\* AgentManager.__init__
NewManager ==
    [keystone |-> NoClient, last_exception |-> NoClient, acquisitions |-> 0,
     cycle |-> 0, accesses |-> 0, acquired |-> 0, got |-> "nothing",
     value |-> NoClient]

\* no definition file read yet
NoLoad == [data |-> <<>>, status |-> "none", definitions |-> <<>>,
           cycles |-> 0]

EmptyBackend == [resources |-> {}, metrics |-> {}, written |-> EmptyMap]

\* the state after GnocchiDispatcher.__init__, for the workers in active
InitDispatch(active, procOf, siteOf, budget, batches, done) ==
    /\ proc = procOf
    /\ site = siteOf
    /\ conf \in [Dispatchers ->
                   [cache : BOOLEAN, filter_service_activity : BOOLEAN]]
    /\ \A d \in Dispatchers : conf[d] = conf["d1"]
    /\ gnocchi_project_id = [d \in Dispatchers |-> NoProject]
    /\ project_id_lock = [d \in Dispatchers |-> None]
    /\ resource_lock = [d \in Dispatchers |-> None]
    /\ cache = [s \in Sites |-> [k \in CacheKeys |-> NoEntry]]
    /\ faults = budget
    /\ inputs = batches
    /\ pc = [w \in Workers |-> IF w \in active THEN "idle" ELSE "off"]
    /\ loc = [w \in Workers |-> NoLocals]
    /\ calls = [w \in Workers |-> <<>>]
    /\ log = [w \in Workers |-> <<>>]
    /\ result = [w \in Workers |-> None]
    /\ dispatched = [w \in Workers |-> done]


(***************************************************************************)
(* The Gnocchi client, as the dispatcher sees it.  The answers are those   *)
(* of the backend's stored state; post_measure and update_resource may     *)
(* also fail for reasons the stored state does not fix.                    *)
(***************************************************************************)
\* gnocchi_client.Client.post_measure
post_measure_answer(b, resource_id, metric_name) ==
    IF <<resource_id, metric_name>> \in b.metrics THEN "ok"
    ELSE "NoSuchMetric"

\* gnocchi_client.Client.create_resource
create_resource_answer(b, resource) ==
    IF resource.id \in b.resources THEN "ResourceAlreadyExists" ELSE "ok"

\* the backend after a successful create_resource: the resource with one
\* metric per key of its metrics map
create_resource_effect(b, resource) ==
    [resources |-> b.resources \cup {resource.id},
     metrics |-> b.metrics \cup
                 {<<resource.id, t>> : t \in DOMAIN resource.metrics},
     written |-> (resource.id :> Info(resource)) @@ b.written]

\* gnocchi_client.Client.create_metric: a metric is created under a
\* resource the backend holds; any other refusal than 409 is unexpected
create_metric_answer(b, resource_id, metric_name) ==
    IF resource_id \notin b.resources THEN "UnexpectedError"
    ELSE IF <<resource_id, metric_name>> \in b.metrics
         THEN "MetricAlreadyExists"
    ELSE "ok"

create_metric_effect(b, resource_id, metric_name) ==
    [b EXCEPT !.metrics = @ \cup {<<resource_id, metric_name>>}]

\* gnocchi_client.Client.update_resource
update_resource_answer(b, resource_id) ==
    IF resource_id \in b.resources THEN "ok" ELSE "UnexpectedError"

update_resource_effect(b, resource) ==
    [b EXCEPT !.written = (resource.id :> Info(resource)) @@ @]

\* the answers a call may get: the one the backend state fixes, or, while
\* the budget lasts, one of the failures in may_fail
Answers(fixed, may_fail) ==
    {fixed} \cup (IF faults > 0 THEN may_fail ELSE {})

Spend(fixed, answer) ==
    faults' = IF answer = fixed THEN faults ELSE faults - 1

(***************************************************************************)
(* record_metering_data.                                                   *)
(***************************************************************************)
Call(op, rtype, rid, metric, arg, outcome) ==
    [op |-> op, resource_type |-> rtype, resource_id |-> rid,
     metric_name |-> metric, arg |-> arg, outcome |-> outcome]

Log(level, what, rid, metric) ==
    [level |-> level, what |-> what, resource_id |-> rid,
     metric_name |-> metric]

\* record_metering_data returns, or an exception leaves it
Leave(w, how) ==
    /\ pc' = [pc EXCEPT ![w] = "idle"]
    /\ result' = [result EXCEPT ![w] = how]
    /\ dispatched' = [dispatched EXCEPT ![w] = @ + 1]

\* lines 233-251 once the filter has the project id it needs: the samples
\* are filtered, sorted and grouped, and the first resource group entered
EnterGroups(w, l, project_id) ==
    LET d == proc[w]
        groups == Groups(Filter(l.data, conf[d].filter_service_activity,
                                project_id))
    IN /\ loc' = [loc EXCEPT ![w] = [l EXCEPT !.groups = groups, !.gi = 1,
                                               !.mi = 1]]
       /\ IF groups = <<>>
          THEN Leave(w, "returned")
          ELSE /\ pc' = [pc EXCEPT ![w] = "process"]
               /\ result' = [result EXCEPT ![w] = None]
               /\ UNCHANGED dispatched

\* _process_resource returns (or its decorator swallowed an
\* UnexpectedError): the loop of line 246 takes the next resource group
NextResource(w, l) ==
    IF l.gi < Len(l.groups)
    THEN /\ pc' = [pc EXCEPT ![w] = "process"]
         /\ loc' = [loc EXCEPT ![w] =
                       [l EXCEPT !.gi = @ + 1, !.mi = 1,
                                 !.resource_extra = EmptyMap,
                                 !.resource = EmptyMap,
                                 !.resource_type = None,
                                 !.attribute_hash = NoHash]]
         /\ UNCHANGED <<result, dispatched>>
    ELSE /\ loc' = [loc EXCEPT ![w] = l]
         /\ Leave(w, "returned")

\* the body of the loop of line 256 ends: the next meter group, or the
\* reconciliation of line 301
NextMeter(w, l) ==
    /\ loc' = [loc EXCEPT ![w] = [l EXCEPT !.mi = @ + 1]]
    /\ pc' = [pc EXCEPT ![w] =
                 IF l.mi < Len(l.groups[l.gi].metric_groups)
                 THEN "process" ELSE "reconcile"]
    /\ UNCHANGED <<result, dispatched>>

\* a wrapper that logs the UnexpectedError and lets it go on to the caller
LogAndRaise(w, l) ==
    /\ log' = [log EXCEPT ![w] =
                  Append(@, Log("error", "UnexpectedError",
                                l.groups[l.gi].resource_id, <<>>))]
    /\ loc' = [loc EXCEPT ![w] = l]
    /\ Leave(w, "UnexpectedError")

\* log_and_ignore_unexpected_workflow_error: the UnexpectedError of a
\* backend call ends _process_resource, is logged and goes no further
LogAndIgnore(w, l) ==
    /\ log' = [log EXCEPT ![w] =
                  Append(@, Log("error", "UnexpectedError",
                                l.groups[l.gi].resource_id, <<>>))]
    /\ NextResource(w, l)

topo == <<proc, site, conf, inputs, load>>

\* what record_metering_data never touches
rest == <<topo, poll, disc, ks>>

\* the orderings of the samples of a batch
Reorderings(batch) ==
    {b \in SeqsOfLen(Len(batch)) :
        {b[i] : i \in 1..Len(b)} = {batch[i] : i \in 1..Len(batch)}}

AnyBatch == [kind |-> "any", of |-> <<>>]
ReorderingOf(batch) == [kind |-> "reordering", of |-> batch]
OneSampleOf(rid) == [kind |-> "one", of |-> rid]
Exactly(batch) == [kind |-> "exactly", of |-> batch]

\* the batches the caller of worker w may hand to record_metering_data
InputsOf(w) ==
    CASE inputs[w].kind = "any" -> Batches
      [] inputs[w].kind = "exactly" -> {inputs[w].of}
      [] inputs[w].kind = "reordering" -> Reorderings(inputs[w].of)
      [] inputs[w].kind = "one" ->
           {b \in SeqsOfLen(0) \cup SeqsOfLen(1) :
               \A i \in 1..Len(b) : b[i].resource_id = inputs[w].of}

\* a caller hands a batch to record_metering_data; the filter's first
\* sample reads gnocchi_project_id (line 198)
RecordMeteringData(w) ==
    /\ pc[w] = "idle"
    /\ dispatched[w] < MaxDispatch
    /\ \E data \in InputsOf(w) :
        LET d == proc[w]
            fresh == [NoLocals EXCEPT !.data = data]
        IN IF ~(data # <<>> /\ conf[d].filter_service_activity
                 /\ gnocchi_project_id[d] = NoProject)
           THEN EnterGroups(w, fresh, gnocchi_project_id[d])
           ELSE /\ loc' = [loc EXCEPT ![w] = fresh]
                /\ pc' = [pc EXCEPT ![w] = "pid_lock"]
                /\ result' = [result EXCEPT ![w] = None]
                /\ UNCHANGED dispatched
    /\ calls' = [calls EXCEPT ![w] = <<>>]
    /\ log' = [log EXCEPT ![w] = <<>>]
    /\ UNCHANGED <<rest, gnocchi_project_id, project_id_lock, resource_lock,
                   cache, backend, faults>>

\* gnocchi_project_id, line 200: with self._gnocchi_project_id_lock
ProjectIdLock(w) ==
    /\ pc[w] = "pid_lock"
    /\ project_id_lock[proc[w]] = None
    /\ project_id_lock' = [project_id_lock EXCEPT ![proc[w]] = w]
    /\ pc' = [pc EXCEPT ![w] = "pid_find"]
    /\ UNCHANGED <<rest, gnocchi_project_id, resource_lock, cache, backend,
                   faults, loc, calls, log, result, dispatched>>

\* a lookup under the lock that would not look again at the stored id
ProjectIdFindUnchecked(w) ==
    LET d == proc[w] IN
    /\ pc[w] = "pid_find"
    /\ project_id_lock' = [project_id_lock EXCEPT ![d] = None]
    /\ \E found \in BOOLEAN :
         /\ ~found => faults > 0
         /\ IF found
            THEN /\ gnocchi_project_id' =
                       [gnocchi_project_id EXCEPT ![d] = GP]
                 /\ EnterGroups(w, loc[w], GP)
                 /\ log' = [log EXCEPT ![w] =
                               Append(@, Log("debug", "project found",
                                             <<>>, <<>>))]
                 /\ UNCHANGED faults
            ELSE /\ faults' = faults - 1
                 /\ log' = [log EXCEPT ![w] =
                               Append(@, Log("error", "keystone", <<>>,
                                             <<>>))]
                 /\ Leave(w, "KeystoneError")
                 /\ UNCHANGED <<gnocchi_project_id, loc>>
    /\ UNCHANGED <<rest, resource_lock, cache, backend, calls>>

\* gnocchi_project_id, lines 201-210 under the lock: the identity service
\* is asked unless another thread stored the id meanwhile; a failed lookup
\* is logged and raised
ProjectIdFind(w) ==
    LET d == proc[w] IN
    /\ pc[w] = "pid_find"
    /\ project_id_lock' = [project_id_lock EXCEPT ![d] = None]
    /\ IF gnocchi_project_id[d] # NoProject
       THEN /\ EnterGroups(w, loc[w], gnocchi_project_id[d])
            /\ UNCHANGED <<gnocchi_project_id, faults, log>>
       ELSE \E found \in BOOLEAN :
            /\ ~found => faults > 0
            /\ IF found
               THEN /\ gnocchi_project_id' =
                          [gnocchi_project_id EXCEPT ![d] = GP]
                    /\ EnterGroups(w, loc[w], GP)
                    /\ log' = [log EXCEPT ![w] =
                                  Append(@, Log("debug", "project found",
                                                <<>>, <<>>))]
                    /\ UNCHANGED faults
               ELSE /\ faults' = faults - 1
                    /\ log' = [log EXCEPT ![w] =
                                  Append(@, Log("error", "keystone", <<>>,
                                                <<>>))]
                    /\ Leave(w, "KeystoneError")
                    /\ UNCHANGED <<gnocchi_project_id, loc>>
    /\ UNCHANGED <<rest, resource_lock, cache, backend, calls>>

\* the meter group the worker stands at
MeterGroup(l) == l.groups[l.gi].metric_groups[l.mi]

\* lines 258-264: no definition matches the meter (a warning), or the
\* first match is an ignore definition
SkipMeter(w) ==
    LET l == loc[w]
        rd == get_resource_definition(MeterGroup(l).metric_name)
    IN /\ pc[w] = "process"
       /\ IF rd = 0 THEN TRUE ELSE resources_definition[rd].ignore
       /\ log' = [log EXCEPT ![w] =
                     IF rd = 0
                     THEN Append(@, Log("warn", "not handled",
                                        l.groups[l.gi].resource_id,
                                        MeterGroup(l).metric_name))
                     ELSE @]
       /\ NextMeter(w, l)
       /\ UNCHANGED <<rest, gnocchi_project_id, project_id_lock,
                      resource_lock, cache, backend, faults, calls>>

\* an accumulation in which the value an attribute has first is kept
RECURSIVE UpdateExtraKeepingFirst(_, _, _)
UpdateExtraKeepingFirst(resource_extra, rd, samples) ==
    IF samples = <<>> THEN resource_extra
    ELSE UpdateExtraKeepingFirst(resource_extra @@
                                     attributes(rd, Head(samples)),
                                 rd, Tail(samples))

\* lines 275-276: resource_extra.update(rd.attributes(sample)) over the
\* samples of the meter group, in order
RECURSIVE UpdateExtra(_, _, _)
UpdateExtra(resource_extra, rd, samples) ==
    IF samples = <<>> THEN resource_extra
    ELSE UpdateExtra(attributes(rd, Head(samples)) @@ resource_extra, rd,
                     Tail(samples))

\* lines 266-280: the locals after the meter group's samples are read
BuildResource(l) ==
    LET mg == MeterGroup(l)
        rd == resources_definition[get_resource_definition(mg.metric_name)]
        extra == UpdateExtra(l.resource_extra, rd, mg.samples)
    IN [l EXCEPT
          !.resource_type = rd.resource_type,
          !.metric_name = mg.metric_name,
          !.resource_extra = extra,
          !.resource = extra @@
              [id |-> l.groups[l.gi].resource_id,
               user_id |-> mg.samples[1].user_id,
               project_id |-> mg.samples[1].project_id,
               metrics |-> metrics(rd)],
          !.measures = [i \in 1..Len(mg.samples) |->
                           [timestamp |-> mg.samples[i].timestamp,
                            value |-> mg.samples[i].counter_volume]]]

\* a post_measure whose UnexpectedError is caught around the one meter
\* group
AfterPostPerMeter(w, l, answer, retried) ==
    CASE answer = "ok" ->
           /\ NextMeter(w, l)
           /\ UNCHANGED log
      [] answer = "UnexpectedError" ->
           /\ log' = [log EXCEPT ![w] =
                         Append(@, Log("error", "UnexpectedError",
                                       l.groups[l.gi].resource_id, <<>>))]
           /\ NextMeter(w, l)
      [] answer = "NoSuchMetric" /\ ~retried ->
           /\ pc' = [pc EXCEPT ![w] = "ensure"]
           /\ loc' = [loc EXCEPT ![w] = l]
           /\ UNCHANGED <<log, result, dispatched>>
      [] answer = "NoSuchMetric" /\ retried ->
           /\ log' = [log EXCEPT ![w] =
                         Append(@, Log("error", "Fail to post measures",
                                       l.resource.id, l.metric_name))]
           /\ NextMeter(w, l)

\* a post_measure whose first answer, whatever it is, is followed by the
\* repair of the resource and the metric
AfterPostEnsuring(w, l, answer, retried) ==
    CASE answer = "ok" /\ retried ->
           /\ NextMeter(w, l)
           /\ UNCHANGED log
      [] answer = "UnexpectedError" -> LogAndIgnore(w, l)
      [] answer \in {"ok", "NoSuchMetric"} /\ ~retried ->
           /\ pc' = [pc EXCEPT ![w] = "ensure"]
           /\ loc' = [loc EXCEPT ![w] = l]
           /\ UNCHANGED <<log, result, dispatched>>
      [] answer = "NoSuchMetric" /\ retried ->
           /\ log' = [log EXCEPT ![w] =
                         Append(@, Log("error", "Fail to post measures",
                                       l.resource.id, l.metric_name))]
           /\ NextMeter(w, l)

\* what the except clauses around a post_measure do with its answer
\* (retried: the call is the one of line 293)
AfterPost(w, l, answer, retried) ==
    CASE answer = "ok" ->
           /\ NextMeter(w, l)
           /\ UNCHANGED log
      [] answer = "UnexpectedError" -> LogAndIgnore(w, l)
      [] answer = "NoSuchMetric" /\ ~retried ->
           /\ pc' = [pc EXCEPT ![w] = "ensure"]
           /\ loc' = [loc EXCEPT ![w] = l]
           /\ UNCHANGED <<log, result, dispatched>>
      [] answer = "NoSuchMetric" /\ retried ->
           /\ log' = [log EXCEPT ![w] =
                         Append(@, Log("error", "Fail to post measures",
                                       l.resource.id, l.metric_name))]
           /\ NextMeter(w, l)

\* lines 266-285: the meter group's measures are posted
PostMeasure(w) ==
    LET rd == get_resource_definition(MeterGroup(loc[w]).metric_name)
        l == BuildResource(loc[w])
        b == backend[site[proc[w]]]
    IN /\ pc[w] = "process"
       /\ IF rd = 0 THEN FALSE ELSE ~resources_definition[rd].ignore
       /\ \E answer \in Answers(post_measure_answer(b, l.resource.id,
                                                    l.metric_name),
                                {"NoSuchMetric", "UnexpectedError"}) :
            /\ Spend(post_measure_answer(b, l.resource.id, l.metric_name),
                     answer)
            /\ calls' = [calls EXCEPT ![w] =
                  Append(@, Call("post_measure", l.resource_type,
                                 l.resource.id, l.metric_name, l.measures,
                                 answer))]
            /\ AfterPost(w, l, answer, FALSE)
       /\ UNCHANGED <<rest, gnocchi_project_id, project_id_lock,
                      resource_lock, cache, backend>>

\* a second post whose NoSuchMetric would be repaired like the first
RetryPostMeasureAgain(w) ==
    LET l == loc[w]
        b == backend[site[proc[w]]]
    IN /\ pc[w] = "retry"
       /\ \E answer \in Answers(post_measure_answer(b, l.resource.id,
                                                    l.metric_name),
                                {"NoSuchMetric", "UnexpectedError"}) :
            /\ Spend(post_measure_answer(b, l.resource.id, l.metric_name),
                     answer)
            /\ calls' = [calls EXCEPT ![w] =
                  Append(@, Call("post_measure", l.resource_type,
                                 l.resource.id, l.metric_name, l.measures,
                                 answer))]
            /\ AfterPost(w, l, answer, FALSE)
       /\ UNCHANGED <<rest, gnocchi_project_id, project_id_lock,
                      resource_lock, cache, backend>>

\* lines 292-299: the one retry behind _ensure_resource_and_metric
RetryPostMeasure(w) ==
    LET l == loc[w]
        b == backend[site[proc[w]]]
    IN /\ pc[w] = "retry"
       /\ \E answer \in Answers(post_measure_answer(b, l.resource.id,
                                                    l.metric_name),
                                {"NoSuchMetric", "UnexpectedError"}) :
            /\ Spend(post_measure_answer(b, l.resource.id, l.metric_name),
                     answer)
            /\ calls' = [calls EXCEPT ![w] =
                  Append(@, Call("post_measure", l.resource_type,
                                 l.resource.id, l.metric_name, l.measures,
                                 answer))]
            /\ AfterPost(w, l, answer, TRUE)
       /\ UNCHANGED <<rest, gnocchi_project_id, project_id_lock,
                      resource_lock, cache, backend>>


\* self.cache of the worker's dispatcher, and the cache key of its resource
CacheOf(w) == cache[site[proc[w]]]
KeyOf(l) == cache_key_mangler(l.resource.id)

\* one backend call appended to the worker's record
Record(w, call) == calls' = [calls EXCEPT ![w] = Append(@, call)]

\* _ensure_resource_and_metric, lines 338-341 and 353-357: with a cache
\* the hash is compared unlocked, without one create_resource is called
Ensure(w) ==
    LET l == loc[w]
        s == site[proc[w]]
        h == check_resource_cache(CacheOf(w), KeyOf(l), l.resource)
        answer == create_resource_answer(backend[s], l.resource)
    IN /\ pc[w] = "ensure"
       /\ IF conf[proc[w]].cache
          THEN /\ loc' = [loc EXCEPT ![w] = [l EXCEPT !.attribute_hash = h]]
               /\ pc' = [pc EXCEPT ![w] =
                            IF Truthy(h) THEN "ens_lock" ELSE "ens_metric"]
               /\ log' = [log EXCEPT ![w] =
                     IF Truthy(h) THEN @
                     ELSE Append(@, Log("debug", "cache hit for create",
                                        l.resource.id, <<>>))]
               /\ UNCHANGED <<backend, calls>>
          ELSE /\ Record(w, Call("create_resource", l.resource_type,
                                 l.resource.id, <<>>, l.resource, answer))
               /\ backend' = [backend EXCEPT ![s] =
                     IF answer = "ok"
                     THEN create_resource_effect(@, l.resource) ELSE @]
               /\ pc' = [pc EXCEPT ![w] =
                     IF answer = "ok" THEN "ens_metric" ELSE "ens_exists"]
               /\ UNCHANGED <<loc, log>>
       /\ UNCHANGED <<rest, gnocchi_project_id, project_id_lock,
                      resource_lock, cache, faults, result, dispatched>>

\* a with statement that would not wait for the lock
EnsureLockUnguarded(w) ==
    /\ pc[w] = "ens_lock"
    /\ resource_lock' = [resource_lock EXCEPT ![proc[w]] = w]
    /\ pc' = [pc EXCEPT ![w] = "ens_recheck"]
    /\ UNCHANGED <<rest, gnocchi_project_id, project_id_lock, cache, backend,
                   faults, loc, calls, log, result, dispatched>>

\* line 343: with self._gnocchi_resource_lock
EnsureLock(w) ==
    /\ pc[w] = "ens_lock"
    /\ resource_lock[proc[w]] = None
    /\ resource_lock' = [resource_lock EXCEPT ![proc[w]] = w]
    /\ pc' = [pc EXCEPT ![w] = "ens_recheck"]
    /\ UNCHANGED <<rest, gnocchi_project_id, project_id_lock, cache, backend,
                   faults, loc, calls, log, result, dispatched>>

\* lines 344-346 and 350-352: the hash is compared again under the lock
EnsureRecheck(w) ==
    LET l == loc[w]
        h == check_resource_cache(CacheOf(w), KeyOf(l), l.resource)
    IN /\ pc[w] = "ens_recheck"
       /\ loc' = [loc EXCEPT ![w] = [l EXCEPT !.attribute_hash = h]]
       /\ IF Truthy(h)
          THEN /\ pc' = [pc EXCEPT ![w] = "ens_create"]
               /\ UNCHANGED <<resource_lock, log>>
          ELSE /\ pc' = [pc EXCEPT ![w] = "ens_metric"]
               /\ resource_lock' = [resource_lock EXCEPT ![proc[w]] = None]
               /\ log' = [log EXCEPT ![w] =
                     Append(@, Log("debug", "recheck cache hit for create",
                                   l.resource.id, <<>>))]
       /\ UNCHANGED <<rest, gnocchi_project_id, project_id_lock, cache,
                      backend, faults, calls, result, dispatched>>

\* lines 347-348: create_resource under the lock; ResourceAlreadyExists
\* leaves the with block for the handler of line 358
EnsureCreate(w) ==
    LET l == loc[w]
        s == site[proc[w]]
        answer == create_resource_answer(backend[s], l.resource)
    IN /\ pc[w] = "ens_create"
       /\ Record(w, Call("create_resource", l.resource_type, l.resource.id,
                         <<>>, l.resource, answer))
       /\ IF answer = "ok"
          THEN /\ backend' = [backend EXCEPT ![s] =
                                 create_resource_effect(@, l.resource)]
               /\ pc' = [pc EXCEPT ![w] = "ens_set"]
               /\ UNCHANGED resource_lock
          ELSE /\ pc' = [pc EXCEPT ![w] = "ens_exists"]
               /\ resource_lock' = [resource_lock EXCEPT ![proc[w]] = None]
               /\ UNCHANGED backend
       /\ UNCHANGED <<rest, gnocchi_project_id, project_id_lock, cache,
                      faults, loc, log, result, dispatched>>

\* line 349: the hash is stored, and the with block ends
EnsureSet(w) ==
    LET l == loc[w]
        s == site[proc[w]]
    IN /\ pc[w] = "ens_set"
       /\ cache' = [cache EXCEPT ![s][KeyOf(l)] =
                        [value |-> l.attribute_hash, time |-> 3600]]
       /\ resource_lock' = [resource_lock EXCEPT ![proc[w]] = None]
       /\ pc' = [pc EXCEPT ![w] = "ens_metric"]
       /\ UNCHANGED <<rest, gnocchi_project_id, project_id_lock, backend,
                      faults, loc, calls, log, result, dispatched>>

\* archive_policy = resource['metrics'][metric_name]; create_metric(...),
\* MetricAlreadyExists ignored; a KeyError leaves record_metering_data, an
\* UnexpectedError leaves _process_resource
CreateMetric(w, then) ==
    LET l == loc[w]
        s == site[proc[w]]
        answer == create_metric_answer(backend[s], l.resource.id,
                                       l.metric_name)
    IN IF l.metric_name \notin DOMAIN l.resource.metrics
       THEN /\ Leave(w, "KeyError")
            /\ UNCHANGED <<backend, calls, loc, log>>
       ELSE /\ Record(w, Call("create_metric", l.resource_type,
                              l.resource.id, l.metric_name,
                              l.resource.metrics[l.metric_name], answer))
            /\ backend' = [backend EXCEPT ![s] =
                  IF answer = "ok"
                  THEN create_metric_effect(@, l.resource.id, l.metric_name)
                  ELSE @]
            /\ IF answer = "UnexpectedError"
               THEN LogAndIgnore(w, l)
               ELSE /\ pc' = [pc EXCEPT ![w] = then]
                    /\ UNCHANGED <<loc, log, result, dispatched>>

\* lines 358-366: the handler of ResourceAlreadyExists
EnsureMetricOfExisting(w) ==
    /\ pc[w] = "ens_exists"
    /\ CreateMetric(w, "ens_metric")
    /\ UNCHANGED <<rest, gnocchi_project_id, project_id_lock, resource_lock,
                   cache, faults>>

\* lines 367-374: the create_metric behind the try statement
EnsureMetric(w) ==
    /\ pc[w] = "ens_metric"
    /\ CreateMetric(w, "retry")
    /\ UNCHANGED <<rest, gnocchi_project_id, project_id_lock, resource_lock,
                   cache, faults>>

\* lines 301-305 and 318-323: nothing to reconcile without extras; with a
\* cache the hash is compared unlocked; without one update_resource is
\* called
Reconcile(w) ==
    LET l == loc[w]
        s == site[proc[w]]
        h == check_resource_cache(CacheOf(w), KeyOf(l), l.resource)
    IN /\ pc[w] = "reconcile"
       /\ IF l.resource_extra = EmptyMap
          THEN /\ NextResource(w, l)
               /\ UNCHANGED <<backend, faults, calls, log>>
          ELSE IF conf[proc[w]].cache
          THEN /\ UNCHANGED <<backend, faults, calls>>
               /\ IF Truthy(h)
                  THEN /\ loc' = [loc EXCEPT ![w] =
                                     [l EXCEPT !.attribute_hash = h]]
                       /\ pc' = [pc EXCEPT ![w] = "rec_lock"]
                       /\ UNCHANGED <<log, result, dispatched>>
                  ELSE /\ log' = [log EXCEPT ![w] =
                             Append(@, Log("debug", "cache hit for update",
                                           l.resource.id, <<>>))]
                       /\ NextResource(w, [l EXCEPT !.attribute_hash = h])
          ELSE \E answer \in Answers(update_resource_answer(backend[s],
                                                            l.resource.id),
                                     {"UnexpectedError"}) :
               /\ Spend(update_resource_answer(backend[s], l.resource.id),
                        answer)
               /\ Record(w, Call("update_resource", l.resource_type,
                                 l.resource.id, <<>>, l.resource_extra,
                                 answer))
               /\ IF answer = "ok"
                  THEN /\ backend' = [backend EXCEPT ![s] =
                                 update_resource_effect(@, l.resource)]
                       /\ NextResource(w, l)
                       /\ UNCHANGED log
                  ELSE /\ LogAndIgnore(w, l)
                       /\ UNCHANGED backend
       /\ UNCHANGED <<rest, gnocchi_project_id, project_id_lock,
                      resource_lock, cache>>

\* line 307: with self._gnocchi_resource_lock
ReconcileLock(w) ==
    /\ pc[w] = "rec_lock"
    /\ resource_lock[proc[w]] = None
    /\ resource_lock' = [resource_lock EXCEPT ![proc[w]] = w]
    /\ pc' = [pc EXCEPT ![w] = "rec_recheck"]
    /\ UNCHANGED <<rest, gnocchi_project_id, project_id_lock, cache, backend,
                   faults, loc, calls, log, result, dispatched>>

\* lines 308-310 and 315-317: the hash is compared again under the lock
ReconcileRecheck(w) ==
    LET l == loc[w]
        h == check_resource_cache(CacheOf(w), KeyOf(l), l.resource)
    IN /\ pc[w] = "rec_recheck"
       /\ IF Truthy(h)
          THEN /\ loc' = [loc EXCEPT ![w] = [l EXCEPT !.attribute_hash = h]]
               /\ pc' = [pc EXCEPT ![w] = "rec_update"]
               /\ UNCHANGED <<resource_lock, log, result, dispatched>>
          ELSE /\ resource_lock' = [resource_lock EXCEPT ![proc[w]] = None]
               /\ log' = [log EXCEPT ![w] =
                     Append(@, Log("debug", "recheck cache hit for update",
                                   l.resource.id, <<>>))]
               /\ NextResource(w, [l EXCEPT !.attribute_hash = h])
       /\ UNCHANGED <<rest, gnocchi_project_id, project_id_lock, cache,
                      backend, faults, calls>>

\* an update_resource under the lock whose hash would be stored before the
\* answer is known
ReconcileUpdateStoringFirst(w) ==
    LET l == loc[w]
        s == site[proc[w]]
    IN /\ pc[w] = "rec_update"
       /\ cache' = [cache EXCEPT ![s][KeyOf(l)] =
                        [value |-> l.attribute_hash, time |-> 3600]]
       /\ \E answer \in Answers(update_resource_answer(backend[s],
                                                       l.resource.id),
                                {"UnexpectedError"}) :
            /\ Spend(update_resource_answer(backend[s], l.resource.id),
                     answer)
            /\ Record(w, Call("update_resource", l.resource_type,
                              l.resource.id, <<>>, l.resource_extra, answer))
            /\ IF answer = "ok"
               THEN /\ backend' = [backend EXCEPT ![s] =
                                      update_resource_effect(@, l.resource)]
                    /\ pc' = [pc EXCEPT ![w] = "rec_set"]
                    /\ UNCHANGED <<resource_lock, loc, log, result,
                                   dispatched>>
               ELSE /\ resource_lock' =
                          [resource_lock EXCEPT ![proc[w]] = None]
                    /\ LogAndIgnore(w, l)
                    /\ UNCHANGED backend
       /\ UNCHANGED <<rest, gnocchi_project_id, project_id_lock>>

\* lines 311-313: update_resource under the lock; an UnexpectedError
\* leaves the with block and _process_resource
ReconcileUpdate(w) ==
    LET l == loc[w]
        s == site[proc[w]]
    IN /\ pc[w] = "rec_update"
       /\ \E answer \in Answers(update_resource_answer(backend[s],
                                                       l.resource.id),
                                {"UnexpectedError"}) :
            /\ Spend(update_resource_answer(backend[s], l.resource.id),
                     answer)
            /\ Record(w, Call("update_resource", l.resource_type,
                              l.resource.id, <<>>, l.resource_extra, answer))
            /\ IF answer = "ok"
               THEN /\ backend' = [backend EXCEPT ![s] =
                                      update_resource_effect(@, l.resource)]
                    /\ pc' = [pc EXCEPT ![w] = "rec_set"]
                    /\ UNCHANGED <<resource_lock, loc, log, result,
                                   dispatched>>
               ELSE /\ resource_lock' =
                          [resource_lock EXCEPT ![proc[w]] = None]
                    /\ LogAndIgnore(w, l)
                    /\ UNCHANGED backend
       /\ UNCHANGED <<rest, gnocchi_project_id, project_id_lock, cache>>

\* line 314: the hash is stored, the with block ends and
\* _process_resource returns
ReconcileSet(w) ==
    LET l == loc[w]
        s == site[proc[w]]
    IN /\ pc[w] = "rec_set"
       /\ cache' = [cache EXCEPT ![s][KeyOf(l)] =
                        [value |-> l.attribute_hash, time |-> 3600]]
       /\ resource_lock' = [resource_lock EXCEPT ![proc[w]] = None]
       /\ NextResource(w, l)
       /\ UNCHANGED <<rest, gnocchi_project_id, project_id_lock, backend,
                      faults, calls, log>>

Step(w) ==
    \/ RecordMeteringData(w)
    \/ ProjectIdLock(w)
    \/ ProjectIdFind(w)
    \/ SkipMeter(w)
    \/ PostMeasure(w)
    \/ RetryPostMeasure(w)
    \/ Ensure(w)
    \/ EnsureLock(w)
    \/ EnsureRecheck(w)
    \/ EnsureCreate(w)
    \/ EnsureSet(w)
    \/ EnsureMetricOfExisting(w)
    \/ EnsureMetric(w)
    \/ Reconcile(w)
    \/ ReconcileLock(w)
    \/ ReconcileRecheck(w)
    \/ ReconcileUpdate(w)
    \/ ReconcileSet(w)

Next == \E w \in Workers : Step(w)

\* one dispatcher with one worker
Init ==
    /\ InitDispatch({"w1"}, [w \in Workers |-> "d1"],
                    [d \in Dispatchers |-> IF d = "d1" THEN "s1" ELSE "s2"],
                    MaxFaults, [w \in Workers |-> AnyBatch], 0)
    /\ backend = [s \in Sites |-> EmptyBackend]
    /\ poll = NoPoll
    /\ disc = NewDiscovery
    /\ ks = NewManager
    /\ load = NoLoad

Spec == Init /\ [][Next]_vars


(***************************************************************************)
(* Two workers at once.                                                    *)
(***************************************************************************)
\* a backend that earlier dispatches of r1's cpu and mem samples left
SeededBackend ==
    [resources |-> {R1},
     metrics |-> {<<R1, Cpu>>, <<R1, <<"d", ".", "*">> >>, <<R1, Mem>>},
     written |-> (R1 :> [id |-> R1, user_id |-> "u1", project_id |-> P1,
                         display_name |-> "a"])]

\* two workers, each with one batch of at most one sample of r1: threads
\* of one dispatcher, or two dispatcher processes with the same
\* configuration, on one cache and one backend that is new or seeded
InitConc ==
    /\ \E procOf \in {[w \in Workers |-> "d1"],
                      [w \in Workers |-> IF w = "w1" THEN "d1" ELSE "d2"]} :
         InitDispatch(Workers, procOf, [d \in Dispatchers |-> "s1"],
                      MaxFaults, [w \in Workers |-> OneSampleOf(R1)],
                      MaxDispatch - 1)
    /\ backend \in [Sites -> {EmptyBackend, SeededBackend}]
    /\ backend["s2"] = EmptyBackend
    /\ poll = NoPoll
    /\ disc = NewDiscovery
    /\ ks = NewManager
    /\ load = NoLoad

SpecConc == InitConc /\ [][Next]_vars

\* every thread that can take a step is scheduled in the end
Fairness == \A w \in Workers : WF_vars(Step(w))

\* two threads of one dispatcher with a cache and the filter, so that both
\* locks are in use, on a new backend, each with one batch of at most one
\* sample of r1
InitLive ==
    /\ InitDispatch(Workers, [w \in Workers |-> "d1"],
                    [d \in Dispatchers |-> "s1"], MaxFaults,
                    [w \in Workers |-> OneSampleOf(R1)], MaxDispatch - 1)
    /\ conf["d1"] = [cache |-> TRUE, filter_service_activity |-> TRUE]
    /\ backend = [s \in Sites |-> EmptyBackend]
    /\ poll = NoPoll
    /\ disc = NewDiscovery
    /\ ks = NewManager
    /\ load = NoLoad

LiveConc == InitLive /\ [][Next]_vars /\ Fairness

\* two dispatchers with the same configuration, each on its own new cache
\* and backend; w2 is handed a reordering of the batch w1 is handed, and
\* every backend answer is the one its stored state fixes
InitPerm ==
    /\ \E batch \in Batches :
         InitDispatch(Workers,
                      [w \in Workers |-> IF w = "w1" THEN "d1" ELSE "d2"],
                      [d \in Dispatchers |-> IF d = "d1" THEN "s1" ELSE "s2"],
                      0,
                      [w \in Workers |-> IF w = "w1"
                                         THEN Exactly(batch)
                                         ELSE ReorderingOf(batch)],
                      MaxDispatch - 1)
    /\ backend = [s \in Sites |-> EmptyBackend]
    /\ poll = NoPoll
    /\ disc = NewDiscovery
    /\ ks = NewManager
    /\ load = NoLoad

SpecPerm == InitPerm /\ [][Next]_vars


(***************************************************************************)
(* The compute pollsters.  get_samples is a generator: every step below    *)
(* is one turn of its for loop, taken when the consumer asks for more.     *)
(***************************************************************************)
\* the longest resource list handed to get_samples
MaxResources == 2

Instances == {"i1", "i2", "i3"}

RECURSIVE ListsOfLen(_)
ListsOfLen(n) ==
    IF n = 0 THEN {<<>>}
    ELSE {Append(l, i) : l \in ListsOfLen(n - 1), i \in Instances}

\* the resource lists: instances, each at most once
ResourceLists ==
    {l \in UNION {ListsOfLen(n) : n \in 0..MaxResources} :
        \A j, k \in 1..Len(l) : j # k => l[j] # l[k]}

MemoryUsageVariants == {"MemoryUsagePollster", "MemoryResidentPollster"}

MemoryInfoVariants ==
    {"MemoryTotalPollster", "MemoryUnusedPollster",
     "MemorySwapTotalPollster", "MemorySwapFreePollster",
     "MemoryBufferPollster", "MemoryCachedPollster"}

InstanceVariants == {"InstancePollster", "InstanceFlavorPollster"}

GuestVariants ==
    {"InstanceSystemInfoPollster", "InstanceOOMStatusPollster",
     "InstanceAppStatsPollster", "InstancePingDelayPollster"}

Pollsters ==
    MemoryUsageVariants \cup MemoryInfoVariants \cup InstanceVariants
        \cup GuestVariants \cup {"InstanceUserCheckPollster"}

\* the name= argument of make_sample_from_instance
MeterName(p) ==
    CASE p = "MemoryUsagePollster" -> "memory.usage"
      [] p = "MemoryResidentPollster" -> "memory.resident"
      [] p = "MemoryTotalPollster" -> "memory.total"
      [] p = "MemoryUnusedPollster" -> "memory.unused"
      [] p = "MemorySwapTotalPollster" -> "memory.swap.total"
      [] p = "MemorySwapFreePollster" -> "memory.swap.free"
      [] p = "MemoryBufferPollster" -> "memory.buffer"
      [] p = "MemoryCachedPollster" -> "memory.cached"
      [] p = "InstancePollster" -> "instance"
      [] p = "InstanceFlavorPollster" -> "instance:flavor"
      [] p = "InstanceSystemInfoPollster" -> "instance.system.info"
      [] p = "InstanceOOMStatusPollster" -> "instance.oom.status"
      [] p = "InstanceAppStatsPollster" -> "instance.app.stats"
      [] p = "InstancePingDelayPollster" -> "instance.ping.delay"

\* the exceptions an inspection may raise
ExceptionClasses ==
    {"InstanceNotFoundException", "InstanceShutOffException",
     "NoDataException", "InstanceNoQGAException",
     "ceilometer.NotImplementedError", "NotImplementedError", "Exception"}

\* an exception of class exc is caught by `except cls`:
\* ceilometer.NotImplementedError derives from the builtin
IsA(exc, cls) ==
    IF cls = exc THEN TRUE
    ELSE IF cls = "Exception" THEN TRUE
    ELSE exc = "ceilometer.NotImplementedError"
         /\ cls = "NotImplementedError"

Handler(cls, level, id) == [cls |-> cls, level |-> level, id |-> id]

\* the except clauses of a variant in their order, with the level they log
\* at and whether the record carries instance.id
Handlers(p) ==
    IF p \in MemoryUsageVariants
    THEN <<Handler("InstanceNotFoundException", "debug", FALSE),
           Handler("InstanceShutOffException", "warn", TRUE),
           Handler("NoDataException", "warn", TRUE),
           Handler("ceilometer.NotImplementedError", "debug", FALSE),
           Handler("Exception", "error", TRUE)>>
    ELSE IF p \in MemoryInfoVariants
    THEN <<Handler("InstanceNoQGAException", "debug", TRUE),
           Handler("InstanceNotFoundException", "debug", FALSE),
           Handler("NotImplementedError", "debug", TRUE),
           Handler("Exception", "error", TRUE)>>
    ELSE IF p \in GuestVariants
    THEN <<Handler("InstanceNotFoundException", "debug", FALSE),
           Handler("NotImplementedError", "debug", TRUE),
           Handler("Exception", "error", TRUE)>>
    ELSE <<>>

\* the first except clause that catches exc; none has cls = None
RECURSIVE Catch(_, _)
Catch(handlers, exc) ==
    IF handlers = <<>> THEN Handler(None, None, FALSE)
    ELSE IF IsA(exc, Head(handlers).cls) THEN Head(handlers)
    ELSE Catch(Tail(handlers), exc)

\* what an instance gives a variant: a value, None, a value that cannot
\* be read the way the variant reads it, or an exception.  The variants
\* without an inspector read the instance itself
Inspections(p) ==
    IF p \in InstanceVariants THEN {"value", "malformed"}
    ELSE {"value", "None", "malformed"} \cup ExceptionClasses

\* the body of the try block, or of the loop where there is no try:
\* "sample" when the sample is made, else the exception it raises
Body(p, got) ==
    CASE got \in ExceptionClasses -> got
      [] got = "value" -> "sample"
      [] got = "None" ->
           IF p \in MemoryUsageVariants THEN "Exception"
           ELSE "NotImplementedError"
      [] got = "malformed" ->
           IF p \in GuestVariants THEN "sample" ELSE "Exception"

\* util.make_sample_from_instance
Sample(p, instance, got) ==
    [resource_id |-> instance, name |-> MeterName(p),
     volume |-> IF p = "InstancePingDelayPollster" /\ got = "malformed"
                THEN "999" ELSE "value"]

PLog(level, what, id) == [level |-> level, what |-> what, id |-> id]

\* a consumer calls get_samples
GetSamples ==
    /\ poll.status = "none"
    /\ \E p \in Pollsters : \E resources \in ResourceLists :
         poll' = [NoPoll EXCEPT !.variant = p, !.resources = resources,
                                !.i = 1, !.status = "running"]
    /\ UNCHANGED <<dvars, disc, ks>>

\* one turn of `for instance in resources`: the call pl once the instance
\* at hand gave got
Turn(pl, got) ==
    LET p == pl.variant
        instance == pl.resources[pl.i]
        done == Body(p, got)
        h == Catch(Handlers(p), done)
        checking == IF p \in InstanceVariants THEN <<>>
                    ELSE <<PLog("debug", "Checking", instance)>>
        tried == [pl EXCEPT
                     !.attempts = Append(@, [id |-> instance, got |-> got]),
                     !.plog = @ \o checking]
    IN IF done = "sample"
       THEN [tried EXCEPT !.i = @ + 1,
                          !.out = Append(@, Sample(p, instance, got))]
       ELSE IF h.cls = None
       THEN [tried EXCEPT !.status = "raised", !.raised = done]
       ELSE [tried EXCEPT
                !.i = @ + 1,
                !.plog = Append(@, PLog(h.level, h.cls,
                                        IF h.id THEN instance ELSE None))]

\* the generator of one of the variants has an instance left
InLoop(variants) ==
    /\ poll.status = "running"
    /\ poll.variant \in variants
    /\ poll.i <= Len(poll.resources)

\* MemoryUsagePollster.get_samples, MemoryResidentPollster.get_samples
MemoryUsageTurn ==
    /\ InLoop(MemoryUsageVariants)
    /\ \E got \in Inspections(poll.variant) : poll' = Turn(poll, got)
    /\ UNCHANGED <<dvars, disc, ks>>

\* MemoryTotalPollster.get_samples and the five variants like it
MemoryInfoTurn ==
    /\ InLoop(MemoryInfoVariants)
    /\ \E got \in Inspections(poll.variant) : poll' = Turn(poll, got)
    /\ UNCHANGED <<dvars, disc, ks>>

\* InstancePollster.get_samples, InstanceFlavorPollster.get_samples
InstanceTurn ==
    /\ InLoop(InstanceVariants)
    /\ \E got \in Inspections(poll.variant) : poll' = Turn(poll, got)
    /\ UNCHANGED <<dvars, disc, ks>>

\* InstanceSystemInfoPollster.get_samples and the three variants like it
GuestTurn ==
    /\ InLoop(GuestVariants)
    /\ \E got \in Inspections(poll.variant) : poll' = Turn(poll, got)
    /\ UNCHANGED <<dvars, disc, ks>>

\* InstanceUserCheckPollster.get_samples: a bare yield
UserCheckYield ==
    /\ poll.status = "running"
    /\ poll.variant = "InstanceUserCheckPollster"
    /\ poll.out = <<>>
    /\ poll' = [poll EXCEPT !.out = <<None>>]
    /\ UNCHANGED <<dvars, disc, ks>>

\* the generator runs off its end
StopIteration ==
    /\ poll.status = "running"
    /\ IF poll.variant = "InstanceUserCheckPollster"
       THEN poll.out # <<>>
       ELSE poll.i > Len(poll.resources)
    /\ poll' = [poll EXCEPT !.status = "exhausted"]
    /\ UNCHANGED <<dvars, disc, ks>>

NextPoll ==
    \/ GetSamples
    \/ MemoryUsageTurn
    \/ MemoryInfoTurn
    \/ InstanceTurn
    \/ GuestTurn
    \/ UserCheckYield
    \/ StopIteration

\* no dispatcher at work, no get_samples call yet
InitPoll ==
    /\ InitDispatch({}, [w \in Workers |-> "d1"],
                    [d \in Dispatchers |-> "s1"], 0,
                    [w \in Workers |-> AnyBatch], 0)
    /\ conf["d1"] = [cache |-> FALSE, filter_service_activity |-> FALSE]
    /\ backend = [s \in Sites |-> EmptyBackend]
    /\ poll = NoPoll
    /\ disc = NewDiscovery
    /\ ks = NewManager
    /\ load = NoLoad

SpecPoll == InitPoll /\ [][NextPoll]_vars


(***************************************************************************)
(* Instance discovery.  The clock is the model's: it never goes back, and  *)
(* time passes between discover calls, not during one.                     *)
(***************************************************************************)
\* discover calls in one behaviour
MaxDiscover == 3

\* instances in one enumeration result
MaxReport == 2

\* cfg.CONF.compute.instance_query_period, in seconds
instance_query_period == 120

\* timedelta.seconds leaves the days out
SecondsPerDay == 86400

\* the times that may pass between two discover calls
Elapses ==
    {1, instance_query_period - 1, instance_query_period,
     instance_query_period + 1, SecondsPerDay - instance_query_period - 1,
     SecondsPerDay + 10}

DiscIds == DOMAIN NewDiscovery.reported

\* getattr(instance, 'OS-EXT-STS:vm_state', None)
VmStates == {"active", None, "deleted", "error"}

Instance(id, vm_state) == [id |-> id, vm_state |-> vm_state]

RECURSIVE ReportsOfLen(_)
ReportsOfLen(n) ==
    IF n = 0 THEN {<<>>}
    ELSE {Append(l, Instance(i, v)) :
            l \in ReportsOfLen(n - 1), i \in DiscIds, v \in VmStates}

\* nova_cli.instance_get_all_by_host: it raises, or returns instances
NovaAnswers ==
    {[raised |-> TRUE, instances |-> <<>>]} \cup
    {[raised |-> FALSE, instances |-> l] :
        l \in UNION {ReportsOfLen(n) : n \in 0..MaxReport}}

\* (utcnow() - last_run).seconds
Seconds(delta) == delta % SecondsPerDay

\* a refresh that takes 'deleted' alone for terminal
RECURSIVE RefreshDeletedOnly(_, _)
RefreshDeletedOnly(instances, reports) ==
    IF reports = <<>> THEN instances
    ELSE LET instance == Head(reports)
             kept == DOMAIN instances \ {instance.id}
         IN RefreshDeletedOnly(IF instance.vm_state = "deleted"
                               THEN [i \in kept |-> instances[i]]
                               ELSE (instance.id :> instance) @@ instances,
                               Tail(reports))

\* the for loop of lines 47-52 and 58-63
RECURSIVE Refresh(_, _)
Refresh(instances, reports) ==
    IF reports = <<>> THEN instances
    ELSE LET instance == Head(reports)
             kept == DOMAIN instances \ {instance.id}
         IN Refresh(IF instance.vm_state \in {"deleted", "error"}
                    THEN [i \in kept |-> instances[i]]
                    ELSE (instance.id :> instance) @@ instances,
                    Tail(reports))

\* the vm_state each instance was last reported with
RECURSIVE Reported(_, _)
Reported(reported, reports) ==
    IF reports = <<>> THEN reported
    ELSE Reported([reported EXCEPT ![Head(reports).id] =
                                       Head(reports).vm_state],
                  Tail(reports))

\* self.instances.values()
Values(instances) == {instances[i] : i \in DOMAIN instances}

\* time passes
Tick ==
    /\ ~disc.ticked
    /\ disc.n < MaxDiscover
    /\ \E d \in Elapses : disc' = [disc EXCEPT !.now = @ + d, !.ticked = TRUE]
    /\ UNCHANGED <<dvars, poll, ks>>

\* the ids of the instances of an enumeration result
Mentioned(reports) == {reports[i].id : i \in 1..Len(reports)}

\* a discover that would return the instances of its enumeration alone
EnumerateReturningChanges(kind, answer) ==
    LET called == [disc EXCEPT !.n = @ + 1, !.ticked = FALSE, !.did = kind,
                               !.since = IF kind = "full" THEN NoTime
                                         ELSE disc.last_run,
                               !.raised = answer.raised,
                               !.mentioned = Mentioned(answer.instances)]
        instances == Refresh(disc.instances, answer.instances)
    IN IF answer.raised THEN called
       ELSE [called EXCEPT !.instances = instances,
                           !.last_run = disc.now,
                           !.returned =
                               Values(Refresh(EmptyMap, answer.instances)),
                           !.reported = Reported(@, answer.instances)]

\* a discover that would track the instances of its enumeration alone
EnumerateReplacing(kind, answer) ==
    LET called == [disc EXCEPT !.n = @ + 1, !.ticked = FALSE, !.did = kind,
                               !.since = IF kind = "full" THEN NoTime
                                         ELSE disc.last_run,
                               !.raised = answer.raised,
                               !.mentioned = Mentioned(answer.instances)]
        instances == Refresh(EmptyMap, answer.instances)
    IN IF answer.raised THEN called
       ELSE [called EXCEPT !.instances = instances,
                           !.last_run = disc.now,
                           !.returned = Values(instances),
                           !.reported = Reported(@, answer.instances)]

\* discover with an enumeration: kind is "full" or "since"
Enumerate(kind, answer) ==
    LET called == [disc EXCEPT !.n = @ + 1, !.ticked = FALSE, !.did = kind,
                               !.since = IF kind = "full" THEN NoTime
                                         ELSE disc.last_run,
                               !.raised = answer.raised,
                               !.mentioned = Mentioned(answer.instances)]
        instances == Refresh(disc.instances, answer.instances)
    IN IF answer.raised THEN called
       ELSE [called EXCEPT !.instances = instances,
                           !.last_run = disc.now,
                           !.returned = Values(instances),
                           !.reported = Reported(@, answer.instances)]

\* discover, lines 45-53 and 66: no enumeration has succeeded yet
DiscoverFull ==
    /\ disc.n < MaxDiscover
    /\ disc.last_run = NoTime
    /\ \E answer \in NovaAnswers : disc' = Enumerate("full", answer)
    /\ UNCHANGED <<dvars, poll, ks>>

\* discover, lines 54-64 and 66: the changes since last_run are asked for
DiscoverSince ==
    /\ disc.n < MaxDiscover
    /\ disc.last_run # NoTime
    /\ Seconds(disc.now - disc.last_run) > instance_query_period
    /\ \E answer \in NovaAnswers : disc' = Enumerate("since", answer)
    /\ UNCHANGED <<dvars, poll, ks>>

\* a discover that notes the time of every call
DiscoverCachedTouching ==
    /\ disc.n < MaxDiscover
    /\ disc.last_run # NoTime
    /\ ~(Seconds(disc.now - disc.last_run) > instance_query_period)
    /\ disc' = [disc EXCEPT !.n = @ + 1, !.ticked = FALSE, !.did = "cached",
                            !.since = NoTime, !.raised = FALSE,
                            !.mentioned = {},
                            !.last_run = disc.now,
                            !.returned = Values(disc.instances)]
    /\ UNCHANGED <<dvars, poll, ks>>

\* discover, line 66 alone: neither branch is taken
DiscoverCached ==
    /\ disc.n < MaxDiscover
    /\ disc.last_run # NoTime
    /\ ~(Seconds(disc.now - disc.last_run) > instance_query_period)
    /\ disc' = [disc EXCEPT !.n = @ + 1, !.ticked = FALSE, !.did = "cached",
                            !.since = NoTime, !.raised = FALSE,
                            !.mentioned = {},
                            !.returned = Values(disc.instances)]
    /\ UNCHANGED <<dvars, poll, ks>>

NextDisc ==
    \/ Tick
    \/ DiscoverFull
    \/ DiscoverSince
    \/ DiscoverCached

\* a new InstanceDiscovery, nothing else at work
InitDisc == InitPoll

SpecDisc == InitDisc /\ [][NextDisc]_vars


(***************************************************************************)
(* The agent manager's keystone client.  A client or an exception is told  *)
(* from the others by the number of the get_client call that gave it.      *)
(***************************************************************************)
\* polling cycles in one behaviour
MaxCycles == 4

\* accesses to manager.keystone in one cycle
MaxAccesses == 4

\* an acquisition that keeps the client but not the exception
KeystoneAcquireForgetting ==
    /\ ks.accesses < MaxAccesses
    /\ ks.keystone = NoClient /\ ks.last_exception = NoClient
    /\ \E answer \in {"client", "ClientException"} :
         LET nth == ks.acquisitions + 1
             asked == [ks EXCEPT !.acquisitions = nth, !.acquired = @ + 1,
                                 !.accesses = @ + 1, !.value = nth]
         IN ks' = IF answer = "client"
                  THEN [asked EXCEPT !.keystone = nth, !.got = "client"]
                  ELSE [asked EXCEPT !.got = "raised"]
    /\ UNCHANGED <<dvars, poll, disc>>

\* the keystone property, lines 64-74, when neither a client nor an
\* exception is kept: get_client returns a client or raises a
\* ClientException
KeystoneAcquire ==
    /\ ks.accesses < MaxAccesses
    /\ ks.keystone = NoClient /\ ks.last_exception = NoClient
    /\ \E answer \in {"client", "ClientException"} :
         LET nth == ks.acquisitions + 1
             asked == [ks EXCEPT !.acquisitions = nth, !.acquired = @ + 1,
                                 !.accesses = @ + 1, !.value = nth]
         IN ks' = IF answer = "client"
                  THEN [asked EXCEPT !.keystone = nth, !.got = "client"]
                  ELSE [asked EXCEPT !.last_exception = nth,
                                     !.got = "raised"]
    /\ UNCHANGED <<dvars, poll, disc>>

\* the keystone property, lines 64 and 71-74, when one of them is kept
KeystoneCached ==
    /\ ks.accesses < MaxAccesses
    /\ ~(ks.keystone = NoClient /\ ks.last_exception = NoClient)
    /\ ks' = IF ks.keystone # NoClient
             THEN [ks EXCEPT !.accesses = @ + 1, !.got = "client",
                             !.value = ks.keystone]
             ELSE [ks EXCEPT !.accesses = @ + 1, !.got = "raised",
                             !.value = ks.last_exception]
    /\ UNCHANGED <<dvars, poll, disc>>

\* an interval_task that forgets the client alone
IntervalTaskKeepingException ==
    /\ ks.cycle < MaxCycles
    /\ ks' = [ks EXCEPT !.keystone = NoClient,
                        !.cycle = @ + 1, !.accesses = 0, !.acquired = 0]
    /\ UNCHANGED <<dvars, poll, disc>>

\* interval_task, lines 53-54; the task it then hands on makes the
\* accesses of the new cycle
IntervalTask ==
    /\ ks.cycle < MaxCycles
    /\ ks' = [ks EXCEPT !.keystone = NoClient, !.last_exception = NoClient,
                        !.cycle = @ + 1, !.accesses = 0, !.acquired = 0]
    /\ UNCHANGED <<dvars, poll, disc>>

NextKs ==
    \/ KeystoneAcquire
    \/ KeystoneCached
    \/ IntervalTask

\* a new AgentManager, nothing else at work
InitKs == InitPoll

SpecKs == InitKs /\ [][NextKs]_vars


(***************************************************************************)
(* Loading the resource definitions, at the dispatcher's construction.     *)
(***************************************************************************)
\* definitions in one file
MaxDefinitions == 2

\* cycles after a construction
MaxCycle == 2

\* a field of a definition as the YAML loader hands it over: absent, or a
\* value of one of these types
Field(type, value) == [type |-> type, value |-> value]

Missing == Field("missing", <<>>)

\* the definitions a file may hold
DefinitionCfgs ==
    [resource_type : {Missing, Field("NoneType", <<>>), Field("int", <<>>),
                      Field("str", <<"instance">>)},
     metrics : {Missing, Field("NoneType", <<>>), Field("str", <<Cpu>>),
                Field("list", <<>>), Field("list", <<Cpu>>),
                Field("list", <<Cpu, <<"d", ".", "*">> >>)}]

\* data.get('resources', [])
DefinitionFiles ==
    UNION {[1..n -> DefinitionCfgs] : n \in 0..MaxDefinitions}

\* ResourcesDefinition.MANDATORY_FIELDS
MANDATORY_FIELDS == [resource_type |-> "str", metrics |-> "list"]

\* ResourcesDefinition.__init__, lines 95-106: the exception of the first
\* mandatory field that is absent or of the wrong type, or None
ResourcesDefinitionInit(definition_cfg) ==
    IF \E field \in DOMAIN MANDATORY_FIELDS :
          \/ definition_cfg[field] = Missing
          \/ definition_cfg[field].type # MANDATORY_FIELDS[field]
    THEN "DefinitionException"
    ELSE None

\* GnocchiDispatcher.__init__ calling _load_resources_definitions: the
\* list of the definitions of the file, or the exception of the first one
\* that does not load, which leaves the constructor
LoadResourcesDefinitions ==
    /\ load.status = "none"
    /\ \E data \in DefinitionFiles :
         load' = IF \E i \in 1..Len(data) :
                       ResourcesDefinitionInit(data[i]) # None
                 THEN [load EXCEPT !.data = data,
                                   !.status = "DefinitionException"]
                 ELSE [load EXCEPT !.data = data, !.status = "loaded",
                                   !.definitions = data]
    /\ UNCHANGED <<proc, site, conf, gnocchi_project_id, project_id_lock,
                   resource_lock, cache, backend, faults, inputs, pc, loc,
                   calls, log, result, dispatched, poll, disc, ks>>

\* a cycle hands a batch to the dispatcher that was constructed
Cycle ==
    /\ load.status = "loaded"
    /\ load.cycles < MaxCycle
    /\ load' = [load EXCEPT !.cycles = @ + 1]
    /\ UNCHANGED <<proc, site, conf, gnocchi_project_id, project_id_lock,
                   resource_lock, cache, backend, faults, inputs, pc, loc,
                   calls, log, result, dispatched, poll, disc, ks>>

NextLoad ==
    \/ LoadResourcesDefinitions
    \/ Cycle

\* no dispatcher constructed yet
InitLoad == InitPoll

SpecLoad == InitLoad /\ [][NextLoad]_vars


(***************************************************************************)
(* Properties of the dispatcher.                                           *)
(***************************************************************************)
\* the positions of worker w's backend calls of one kind for one resource
CallsOf(w, op, rid) ==
    {i \in 1..Len(calls[w]) :
        calls[w][i].op = op /\ calls[w][i].resource_id = rid}

\* the positions of worker w's post_measure calls for one meter
PostsOf(w, rid, metric) ==
    {i \in CallsOf(w, "post_measure", rid) :
        calls[w][i].metric_name = metric}

\* worker w's dispatch is over
Over(w) == pc[w] = "idle" /\ dispatched[w] > 0

\* no call of worker w was answered UnexpectedError
NoneUnexpected(w) ==
    \A i \in 1..Len(calls[w]) : calls[w][i].outcome # "UnexpectedError"

\* C1: with a cache and one worker, a resource group with extras is taken
\* to the update_resource call exactly when the cache does not hold the
\* hash of its attributes under the resource's key, whatever the hash is,
\* and the hash is in the cache once the update is done
C1_UpdateIffCacheDiffers ==
    [][\A w \in Workers :
         /\ (/\ pc[w] = "reconcile" /\ pc'[w] # "reconcile"
             /\ conf[proc[w]].cache
             /\ loc[w].resource_extra # EmptyMap)
            => ((pc'[w] = "rec_lock") <=>
                (CacheOf(w)[KeyOf(loc[w])].value #
                     attribute_hash_of(loc[w].resource)))
         /\ (pc[w] = "rec_set" /\ pc'[w] # "rec_set")
            => cache'[site[proc[w]]][KeyOf(loc[w])].value =
                   attribute_hash_of(loc[w].resource)]_vars

\* C2: two workers of one dispatcher with a cache were handed the same
\* sample, both posted it without a repair and reconciled its attributes,
\* which the cache did not hold: one update_resource call was issued
C2_ExactlyOneUpdate ==
    (/\ proc["w1"] = proc["w2"]
     /\ conf[proc["w1"]].cache
     /\ \A w \in Workers :
          /\ Over(w) /\ result[w] = "returned"
          /\ Len(loc[w].data) = 1
          /\ loc[w].resource_extra # EmptyMap
          /\ \A i \in 1..Len(calls[w]) : calls[w][i].outcome = "ok"
     /\ loc["w1"].data = loc["w2"].data)
    => Cardinality(CallsOf("w1", "update_resource", R1)) +
       Cardinality(CallsOf("w2", "update_resource", R1)) = 1

\* a worker between its re-check of the cache and its cache.set
InWindow(w) == pc[w] \in {"ens_create", "ens_set", "rec_update", "rec_set"}

\* C3: while no worker of a site is between its re-check and its
\* cache.set, a hash the cache holds for a resource is the hash of the
\* attributes last written to the backend for it
C3_CacheMatchesBackend ==
    \A s \in Sites : \A r \in ResourceIds :
        (/\ \A w \in Workers : site[proc[w]] = s => ~InWindow(w)
         /\ cache[s][cache_key_mangler(r)] # NoEntry
         /\ r \in DOMAIN backend[s].written)
        => cache[s][cache_key_mangler(r)].value =
               attribute_hash_of(backend[s].written[r])

\* C4: once a dispatch is over, every meter group whose first
\* post_measure was answered NoSuchMetric has been posted exactly once
\* more, with the same measures, and no exception left the dispatch
C4_RetriedExactlyOnce ==
    \A w \in Workers : \A i \in 1..Len(calls[w]) :
        LET c == calls[w][i]
            posts == PostsOf(w, c.resource_id, c.metric_name)
        IN (/\ Over(w)
            /\ c.op = "post_measure"
            /\ c.outcome = "NoSuchMetric"
            /\ \A j \in posts : i <= j)
           => /\ Cardinality(posts) = 2
              /\ \A j \in posts : calls[w][j].arg = c.arg
              /\ result[w] = "returned"

\* C5: both workers were handed the same sample and both ran the repair
\* for its meter: both dispatches returned with the measures posted again,
\* and the backend holds the resource and the metric
C5_ConcurrentEnsure ==
    (/\ \A w \in Workers :
          /\ Over(w)
          /\ Len(loc[w].data) = 1
          /\ \E i \in 1..Len(calls[w]) :
                /\ calls[w][i].op = "post_measure"
                /\ calls[w][i].outcome = "NoSuchMetric"
          /\ \A i \in 1..Len(calls[w]) :
                calls[w][i].op = "post_measure"
                    => calls[w][i].outcome # "UnexpectedError"
     /\ loc["w1"].data = loc["w2"].data)
    => LET sample == loc["w1"].data[1]
           b == backend[site[proc["w1"]]]
       IN /\ \A w \in Workers :
               /\ result[w] = "returned"
               /\ NoneUnexpected(w)
               /\ Cardinality(PostsOf(w, sample.resource_id,
                                      sample.counter_name)) = 2
          /\ sample.resource_id \in b.resources
          /\ <<sample.resource_id, sample.counter_name>> \in b.metrics

\* C6: a create_resource answered ResourceAlreadyExists is followed by the
\* create_metric call for the meter under repair, and whether that is
\* answered ok or MetricAlreadyExists the repair goes on
C6_MetricOfExistingResource ==
    \A w \in Workers : \A i \in 1..Len(calls[w]) :
        (calls[w][i].op = "create_resource"
         /\ calls[w][i].outcome = "ResourceAlreadyExists")
        => IF i = Len(calls[w])
           THEN pc[w] = "ens_exists"
           ELSE /\ calls[w][i + 1].op = "create_metric"
                /\ calls[w][i + 1].resource_id = calls[w][i].resource_id
                /\ calls[w][i + 1].outcome \in {"ok", "MetricAlreadyExists"}
                /\ i + 1 = Len(calls[w]) => pc[w] = "ens_metric"

\* where a sample stands in a batch
Pos(batch, x) == CHOOSE i \in 1..Len(batch) : batch[i] = x

\* batch b keeps the samples of one resource and meter in the order of a
KeepsOrder(a, b) ==
    \A i, j \in 1..Len(a) :
        (/\ i < j
         /\ a[i].resource_id = a[j].resource_id
         /\ a[i].counter_name = a[j].counter_name)
        => Pos(b, a[i]) < Pos(b, a[j])

\* both dispatchers are through with their ordering of the batch
PermDone == \A w \in Workers : Over(w) /\ dispatched[w] = MaxDispatch

\* what a dispatch shows: its groups, its backend calls with their
\* arguments and answers, its log and how it ended
Observed(w) == <<loc[w].groups, calls[w], log[w], result[w]>>

\* C7 as the spec states it: two dispatchers handed the same samples in
\* any two orders form the same groups and issue the same sequence of
\* backend calls with the same arguments
C7_SameCallsInAnyOrder ==
    PermDone => Observed("w1") = Observed("w2")

\* C7: two dispatchers handed the same samples in two orders that agree
\* on the order of the samples sharing a resource id and a meter name
\* form the same groups and issue the same sequence of backend calls with
\* the same arguments
C7_SameCallsWhenOrderKept ==
    (PermDone /\ KeepsOrder(loc["w1"].data, loc["w2"].data))
    => Observed("w1") = Observed("w2")

C7_Witness ==
    /\ PermDone
    /\ loc["w1"].data # loc["w2"].data
    /\ KeepsOrder(loc["w1"].data, loc["w2"].data)
    /\ Len(loc["w1"].groups) = 1
    /\ Len(calls["w1"]) > 2
    /\ Observed("w1") = Observed("w2")

\* the step of worker w that gets an UnexpectedError from a backend call
Unexpected(w) ==
    /\ Len(calls'[w]) = Len(calls[w]) + 1
    /\ calls'[w][Len(calls'[w])].outcome = "UnexpectedError"

\* C8: a backend call answered UnexpectedError inside a resource group is
\* logged as an error for that group, and the dispatcher goes to the next
\* resource group, or returns normally behind the last one
C8_UnexpectedErrorEndsOnlyTheGroup ==
    [][\A w \in Workers :
         Unexpected(w) =>
           LET l == loc[w]
               rid == l.groups[l.gi].resource_id
           IN /\ calls'[w][Len(calls'[w])].resource_id = rid
              /\ log'[w] = Append(log[w],
                                  Log("error", "UnexpectedError", rid, <<>>))
              /\ IF l.gi < Len(l.groups)
                 THEN /\ pc'[w] = "process"
                      /\ loc'[w].gi = l.gi + 1
                      /\ loc'[w].mi = 1
                      /\ result'[w] = result[w]
                 ELSE /\ pc'[w] = "idle"
                      /\ result'[w] = "returned"]_vars

C8_Witness ==
    \E w \in Workers :
        /\ pc[w] = "process"
        /\ loc[w].gi = 2
        /\ calls[w] # <<>>
        /\ calls[w][Len(calls[w])].outcome = "UnexpectedError"
        /\ calls[w][Len(calls[w])].resource_id =
               loc[w].groups[1].resource_id
        /\ log[w] # <<>>
        /\ log[w][Len(log[w])].what = "UnexpectedError"

\* the meter groups of worker w's resource group for rid that come
\* behind the meter and map to a resource definition that is not ignored
Remaining(w, rid, metric) ==
    LET g == CHOOSE g \in 1..Len(loc[w].groups) :
                 loc[w].groups[g].resource_id = rid
        mgs == loc[w].groups[g].metric_groups
        at == CHOOSE m \in 1..Len(mgs) : mgs[m].metric_name = metric
    IN {mgs[m].metric_name : m \in {m \in at + 1..Len(mgs) :
          LET rd == get_resource_definition(mgs[m].metric_name)
          IN IF rd = 0 THEN FALSE ELSE ~resources_definition[rd].ignore}}

\* worker w's post_measure calls that were answered UnexpectedError
FailedPosts(w) ==
    {i \in 1..Len(calls[w]) :
        /\ calls[w][i].op = "post_measure"
        /\ calls[w][i].outcome = "UnexpectedError"}

\* C9 as the spec states it: behind a post_measure answered
\* UnexpectedError the failure is logged and the remaining meter groups
\* of the resource are still posted
C9_RemainingMetersPosted ==
    \A w \in Workers : \A i \in FailedPosts(w) :
        Over(w) =>
          /\ \E k \in 1..Len(log[w]) :
                log[w][k].level = "error"
                /\ log[w][k].resource_id = calls[w][i].resource_id
          /\ \A m \in Remaining(w, calls[w][i].resource_id,
                                calls[w][i].metric_name) :
                PostsOf(w, calls[w][i].resource_id, m) # {}

\* C9: behind a post_measure answered UnexpectedError the failure is
\* logged and no further call is issued for that resource: its remaining
\* meter groups and its reconciliation are skipped, and the dispatcher is
\* at a later resource group or has returned normally
C9_RestOfResourceSkipped ==
    \A w \in Workers : \A i \in FailedPosts(w) :
        LET rid == calls[w][i].resource_id
        IN /\ \E k \in 1..Len(log[w]) :
                 log[w][k] = Log("error", "UnexpectedError", rid, <<>>)
           /\ \A j \in 1..Len(calls[w]) :
                 j > i => calls[w][j].resource_id # rid
           /\ IF pc[w] = "idle"
              THEN result[w] \in {"returned", "KeyError"}
                   /\ (i = Len(calls[w]) => result[w] = "returned")
              ELSE loc[w].groups[loc[w].gi].resource_id # rid

C9_Witness ==
    \E w \in Workers : \E i \in FailedPosts(w) :
        /\ Over(w)
        /\ result[w] = "returned"
        /\ Remaining(w, calls[w][i].resource_id,
                     calls[w][i].metric_name) # {}
        /\ i = Len(calls[w])

\* no definition of the configuration matches the meter name
Unmapped(metric_name) ==
    \A k \in 1..Len(resources_definition) :
        ~match(resources_definition[k], metric_name)

\* the first definition matching the meter name has ignore set
Ignored(metric_name) ==
    \E k \in 1..Len(resources_definition) :
        /\ match(resources_definition[k], metric_name)
        /\ resources_definition[k].ignore
        /\ \A j \in 1..(k - 1) : ~match(resources_definition[j], metric_name)

\* C16: the step a worker takes at a meter group whose meter name matches
\* no definition, or whose first matching definition has ignore set, issues
\* no backend call, leaves the extras of the resource and the backend as
\* they are, raises nothing, and moves on to the next meter group of the
\* same resource or, after the last one, to the reconciliation of the
\* resource; and no post_measure or create_metric call ever names such a
\* meter.
C16_UnmappedOrIgnoredMeterSkipped ==
    [][\A w \in Workers :
          /\ (/\ pc[w] = "process"
              /\ loc'[w] # loc[w]
              /\ \/ Unmapped(MeterGroup(loc[w]).metric_name)
                 \/ Ignored(MeterGroup(loc[w]).metric_name))
             => /\ calls'[w] = calls[w]
                /\ backend' = backend
                /\ cache' = cache
                /\ loc'[w].resource_extra = loc[w].resource_extra
                /\ loc'[w].gi = loc[w].gi
                /\ loc'[w].mi = loc[w].mi + 1
                /\ result'[w] = result[w]
                /\ pc'[w] = IF loc[w].mi
                                  < Len(loc[w].groups[loc[w].gi].metric_groups)
                            THEN "process" ELSE "reconcile"
          /\ \A i \in 1..Len(calls'[w]) :
                calls'[w][i].op \in {"post_measure", "create_metric"}
                => /\ ~Unmapped(calls'[w][i].metric_name)
                   /\ ~Ignored(calls'[w][i].metric_name)]_vars

\* an ignored meter group of a resource was passed without a call and
\* without extras, and the worker stands at the next meter group of the
\* same resource
C16_Witness ==
    \E w \in Workers :
        /\ pc[w] = "process"
        /\ loc[w].mi = 2
        /\ loc[w].groups[loc[w].gi].metric_groups[1].metric_name = Img
        /\ loc[w].groups[loc[w].gi].metric_groups[2].metric_name = Mem
        /\ calls[w] = <<>>
        /\ loc[w].resource_extra = EmptyMap

\* the positions of worker w's post_measure calls for one resource that
\* were answered NoSuchMetric
Unknown(w, rid) ==
    {i \in CallsOf(w, "post_measure", rid) :
        calls[w][i].outcome = "NoSuchMetric"}

\* C17 as stated: over one resource group, create_resource and
\* update_resource together are called at most once, whatever the backend
\* answers to the posts.
C17_AtMostOneCreateOrUpdate ==
    \A w \in Workers : \A rid \in ResourceIds :
        Cardinality(CallsOf(w, "create_resource", rid)
                    \union CallsOf(w, "update_resource", rid)) <= 1

\* C17, amended: over one resource group, update_resource is called at most
\* once, create_resource at most once for each post_measure the backend
\* answered NoSuchMetric (so never when every post is accepted), and each
\* meter of the group is posted at most twice, the second time only after
\* a first post answered NoSuchMetric.
C17_OneUpdateAndOneCreatePerUnknownMetric ==
    \A w \in Workers : \A rid \in ResourceIds :
        /\ Cardinality(CallsOf(w, "update_resource", rid)) <= 1
        /\ Cardinality(CallsOf(w, "create_resource", rid))
              <= Cardinality(Unknown(w, rid))
        /\ \A i \in CallsOf(w, "post_measure", rid) :
              LET posts == PostsOf(w, rid, calls[w][i].metric_name)
              IN /\ Cardinality(posts) <= 2
                 /\ Cardinality(posts) = 2
                      => \E j \in posts :
                            /\ \A k \in posts : j <= k
                            /\ calls[w][j].outcome = "NoSuchMetric"

\* a dispatch is over in which one resource group had two meters posted,
\* the resource created and, at reconciliation, updated
C17_Witness ==
    \E w \in Workers : \E rid \in ResourceIds :
        /\ Over(w)
        /\ \E i, j \in CallsOf(w, "post_measure", rid) :
              calls[w][i].metric_name # calls[w][j].metric_name
        /\ CallsOf(w, "create_resource", rid) # {}
        /\ Cardinality(CallsOf(w, "update_resource", rid)) = 1

\* the samples of the resource groups a worker walks
Grouped(l) ==
    UNION {UNION {{l.groups[g].metric_groups[m].samples[i] :
                      i \in 1..Len(l.groups[g].metric_groups[m].samples)} :
                  m \in 1..Len(l.groups[g].metric_groups)} :
           g \in 1..Len(l.groups)}

\* the meter name matches a definition of the swift_account type
SwiftAccountMeter(metric_name) ==
    \E k \in 1..Len(resources_definition) :
        /\ resources_definition[k].resource_type = "swift_account"
        /\ match(resources_definition[k], metric_name)

\* worker w has filtered and grouped the samples of a batch that is not
\* empty
Entered(w) ==
    /\ loc[w].data # <<>>
    /\ pc[w] \notin {"off", "pid_lock", "pid_find"}
    /\ result[w] # "KeystoneError"

\* C18: with the filter enabled, the samples of the resource groups are
\* the samples of the batch except exactly those whose project_id is the
\* service project id, or whose resource_id is that id and whose meter
\* matches a definition of the swift_account type.
C18_DroppedIffBackendsOwn ==
    \A w \in Workers :
        (Entered(w) /\ conf[proc[w]].filter_service_activity)
        => LET id == gnocchi_project_id[proc[w]]
           IN /\ id # NoProject
              /\ Grouped(loc[w]) =
                   {loc[w].data[i] : i \in
                      {j \in 1..Len(loc[w].data) :
                          ~(\/ loc[w].data[j].project_id = id
                            \/ /\ loc[w].data[j].resource_id = id
                               /\ SwiftAccountMeter(
                                      loc[w].data[j].counter_name))}}

\* of two samples on the service project's id, the swift account one was
\* dropped and the other is the only one grouped
C18_Witness ==
    \E w \in Workers :
        /\ Entered(w)
        /\ conf[proc[w]].filter_service_activity
        /\ Len(loc[w].data) = 2
        /\ \E i \in 1..2 :
              /\ loc[w].data[i].resource_id = gnocchi_project_id[proc[w]]
              /\ loc[w].data[i].counter_name = SwiftObj
        /\ Cardinality(Grouped(loc[w])) = 1
        /\ \E s \in Grouped(loc[w]) :
              s.resource_id = gnocchi_project_id[proc[w]]

\* C19: the stored service project id never changes once set; an identity
\* lookup succeeds only while none is stored, for the thread holding the
\* lock, and stores the id; and a dispatch the failed lookup ends has
\* issued no backend call.
C19_ProjectIdResolvedOnce ==
    [][\A w \in Workers :
          LET d == proc[w] IN
          /\ gnocchi_project_id[d] # NoProject
             => gnocchi_project_id'[d] = gnocchi_project_id[d]
          /\ (/\ Len(log'[w]) = Len(log[w]) + 1
              /\ log'[w][Len(log'[w])].what = "project found")
             => /\ gnocchi_project_id[d] = NoProject
                /\ project_id_lock[d] = w
                /\ gnocchi_project_id'[d] # NoProject
          /\ (pc[w] # "idle" /\ pc'[w] = "idle"
                             /\ result'[w] = "KeystoneError")
             => /\ calls'[w] = <<>>
                /\ pc[w] = "pid_find"
                /\ backend' = backend]_vars

\* a thread holds the lock for a lookup after another thread of the same
\* dispatcher stored the id
C19_Witness ==
    \E w \in Workers :
        /\ pc[w] = "pid_find"
        /\ gnocchi_project_id[proc[w]] # NoProject

\* the extras the mapped meter groups of one resource group add up to
RECURSIVE ExtrasOf(_, _)
ExtrasOf(metric_groups, extras) ==
    IF metric_groups = <<>> THEN extras
    ELSE LET mg == Head(metric_groups)
         IN ExtrasOf(Tail(metric_groups),
                     IF Unmapped(mg.metric_name) \/ Ignored(mg.metric_name)
                     THEN extras
                     ELSE UpdateExtra(extras,
                              resources_definition[
                                  get_resource_definition(mg.metric_name)],
                              mg.samples))

\* C20 as stated, for the dispatches in which the backend answered no call
\* with UnexpectedError: once the dispatch is over, a resource group
\* without extras has no update_resource call, with or without a cache,
\* and without a cache a resource group with extras has exactly one
\* update_resource call, carrying those extras.
C20_UpdateDependsOnlyOnExtras ==
    \A w \in Workers :
        (Over(w) /\ NoneUnexpected(w)) =>
        \A g \in 1..Len(loc[w].groups) :
            LET extras == ExtrasOf(loc[w].groups[g].metric_groups, EmptyMap)
                updates == CallsOf(w, "update_resource",
                                   loc[w].groups[g].resource_id)
            IN /\ extras = EmptyMap => updates = {}
               /\ (~conf[proc[w]].cache /\ extras # EmptyMap)
                  => /\ Cardinality(updates) = 1
                     /\ \A i \in updates : calls[w][i].arg = extras

\* the places of record_metering_data inside a with block of the lock
Locked == {"ens_recheck", "ens_create", "ens_set",
           "rec_recheck", "rec_update", "rec_set"}

\* C23: every record_metering_data call under way ends; a worker enters
\* the repair of a meter group only from the group's first post, and the
\* second post leaves the meter group, so a meter has at most two posts in
\* a dispatch; and a worker holds the reconciliation lock only inside a
\* with block and the project-id lock only during the lookup, so both are
\* released however the call ends.
C23_EveryDispatchEnds ==
    /\ \A w \in Workers : (pc[w] \notin {"idle", "off"}) ~> (pc[w] = "idle")
    /\ [](\A w \in Workers :
            /\ resource_lock[proc[w]] = w => pc[w] \in Locked
            /\ project_id_lock[proc[w]] = w => pc[w] = "pid_find"
            /\ \A i \in 1..Len(calls[w]) :
                  calls[w][i].op = "post_measure"
                  => Cardinality(PostsOf(w, calls[w][i].resource_id,
                                         calls[w][i].metric_name)) <= 2)
    /\ [][\A w \in Workers :
            /\ (pc'[w] = "ensure" /\ pc[w] # "ensure") => pc[w] = "process"
            /\ (pc[w] = "retry" /\ pc'[w] # "retry")
               => \/ pc'[w] = "idle"
                  \/ /\ pc'[w] \in {"process", "reconcile"}
                     /\ <<loc'[w].gi, loc'[w].mi>>
                           # <<loc[w].gi, loc[w].mi>>]_vars

\* a dispatch is over in which a meter was posted, repaired and posted
\* again, while another worker of the same dispatcher waits for the lock
\* or holds it
C23_Witness ==
    \E w, v \in Workers :
        /\ w # v
        /\ proc[w] = proc[v]
        /\ Over(w)
        /\ \E i \in 1..Len(calls[w]) :
              /\ calls[w][i].op = "post_measure"
              /\ Cardinality(PostsOf(w, calls[w][i].resource_id,
                                     calls[w][i].metric_name)) = 2
        /\ resource_lock[proc[w]] # w
        /\ pc[v] \in Locked \union {"ens_lock", "rec_lock"}

\* C24 as stated: every create_metric call of a dispatch directly follows
\* a create_resource call for the same resource that was answered
\* ResourceAlreadyExists, so that one ensure run issues create_metric at
\* most once, and not at all after a create_resource that succeeded.
C24_CreateMetricOnlyAfterAlreadyExists ==
    \A w \in Workers : \A i \in 1..Len(calls[w]) :
        calls[w][i].op = "create_metric"
        => /\ i > 1
           /\ calls[w][i - 1].op = "create_resource"
           /\ calls[w][i - 1].resource_id = calls[w][i].resource_id
           /\ calls[w][i - 1].outcome = "ResourceAlreadyExists"

\* the last backend call of worker w
LastCall(w) == calls[w][Len(calls[w])]

\* C25: a cache entry changes only in the step of a worker that holds the
\* lock of its dispatcher and whose last backend call, create_resource in
\* the repair or update_resource in the reconciliation of the resource of
\* that entry, was answered ok; the entry becomes the hash of the
\* resource's attributes that the worker computed under the lock, kept
\* for 3600 seconds; and the step of a guarded call that raises leaves
\* the cache as it is.
C25_CacheSetOnlyAfterSuccess ==
    [][/\ \A s \in Sites : \A k \in CacheKeys :
            cache'[s][k] # cache[s][k]
            => \E w \in Workers :
                  /\ site[proc[w]] = s
                  /\ resource_lock[proc[w]] = w
                  /\ k = KeyOf(loc[w])
                  /\ \/ pc[w] = "ens_set"
                        /\ LastCall(w).op = "create_resource"
                     \/ pc[w] = "rec_set"
                        /\ LastCall(w).op = "update_resource"
                  /\ LastCall(w).resource_id = loc[w].resource.id
                  /\ LastCall(w).outcome = "ok"
                  /\ loc[w].attribute_hash =
                        attribute_hash_of(loc[w].resource)
                  /\ cache'[s][k] = [value |-> loc[w].attribute_hash,
                                     time |-> 3600]
       /\ \A w \in Workers :
            (/\ pc[w] \in {"ens_create", "rec_update"}
             /\ Len(calls'[w]) = Len(calls[w]) + 1
             /\ calls'[w][Len(calls'[w])].outcome # "ok")
            => /\ cache' = cache
               /\ pc'[w] \notin {"ens_set", "rec_set"}]_vars

\* the update_resource of one worker raised under the lock and left the
\* cache as it was, the other worker was handed the same attributes and
\* called update_resource again, and its hash is in the cache
C25_Witness ==
    \E w, v \in Workers :
        /\ w # v
        /\ Len(calls[w]) > 0
        /\ LastCall(w).op = "update_resource"
        /\ LastCall(w).outcome = "UnexpectedError"
        /\ Len(calls[v]) > 0
        /\ LastCall(v).op = "update_resource"
        /\ LastCall(v).outcome = "ok"
        /\ LastCall(v).arg = LastCall(w).arg
        /\ Over(v)
        /\ cache[site[proc[v]]][KeyOf(loc[v])] =
              [value |-> attribute_hash_of(loc[v].resource), time |-> 3600]

\* the extractions of the meter groups of one resource group in the order
\* they are made: the definition of each mapped meter group with each of
\* its samples
RECURSIVE Extractions(_)
Extractions(metric_groups) ==
    IF metric_groups = <<>> THEN <<>>
    ELSE LET mg == Head(metric_groups)
             k == CHOOSE k \in 1..Len(resources_definition) :
                     /\ match(resources_definition[k], mg.metric_name)
                     /\ \A j \in 1..(k - 1) :
                           ~match(resources_definition[j], mg.metric_name)
         IN (IF Unmapped(mg.metric_name) \/ Ignored(mg.metric_name)
             THEN <<>>
             ELSE [i \in 1..Len(mg.samples) |->
                      [rd |-> k, sample |-> mg.samples[i]]])
            \o Extractions(Tail(metric_groups))

\* the extraction yields a value for the attribute
Yields(extraction, name) ==
    LET attrs == resources_definition[extraction.rd].attributes
    IN /\ name \in DOMAIN attrs
       /\ extraction.sample.resource_metadata[attrs[name]] # None

\* for each attribute some extraction yields, the value of the last
\* extraction that yields one
LaterWins(extractions) ==
    LET names == {n \in UNION {DOMAIN resources_definition[k].attributes :
                                  k \in 1..Len(resources_definition)} :
                     \E i \in 1..Len(extractions) : Yields(extractions[i], n)}
    IN [n \in names |->
           LET i == CHOOSE i \in 1..Len(extractions) :
                       /\ Yields(extractions[i], n)
                       /\ \A j \in (i + 1)..Len(extractions) :
                             ~Yields(extractions[j], n)
               attrs == resources_definition[extractions[i].rd].attributes
           IN extractions[i].sample.resource_metadata[attrs[n]]]

\* the places of a worker between the first post of a meter group and the
\* end of its second post
Repairing == {"ensure", "ens_lock", "ens_recheck", "ens_create", "ens_set",
              "ens_exists", "ens_metric", "retry"}

\* C26: the meter groups of a resource group stand in ascending order of
\* their names and the samples of a meter group in the order of the batch;
\* while a meter group is repaired the extras, and the attributes of the
\* resource handed to the repair and to create_resource, are for each
\* attribute the value of the last extraction, up to and including that
\* meter group, that yields one, with no key for an attribute none
\* yields; at the reconciliation they are those of all the meter groups.
C26_ExtrasAccumulateLaterWins ==
    \A w \in Workers :
        LET l == loc[w] IN
        /\ \A g \in 1..Len(l.groups) :
              LET mgs == l.groups[g].metric_groups IN
              /\ \A m \in 1..(Len(mgs) - 1) :
                    StrLess(mgs[m].metric_name, mgs[m + 1].metric_name)
              /\ \A m \in 1..Len(mgs) :
                    \A i \in 1..(Len(mgs[m].samples) - 1) :
                       Pos(l.data, mgs[m].samples[i])
                         < Pos(l.data, mgs[m].samples[i + 1])
        /\ pc[w] \in Repairing
           => LET extras == LaterWins(Extractions(
                               SubSeq(l.groups[l.gi].metric_groups, 1, l.mi)))
              IN /\ l.resource_extra = extras
                 /\ DOMAIN l.resource = DOMAIN extras \union
                       {"id", "user_id", "project_id", "metrics"}
                 /\ \A n \in DOMAIN extras : l.resource[n] = extras[n]
                 /\ (Len(calls[w]) > 0
                       /\ LastCall(w).op = "create_resource")
                    => LastCall(w).arg = l.resource
        /\ pc[w] \in {"reconcile", "rec_lock", "rec_recheck", "rec_update",
                       "rec_set"}
           => l.resource_extra =
                 LaterWins(Extractions(l.groups[l.gi].metric_groups))

\* the second meter group of a resource is being repaired, and the
\* display_name its definition extracts has replaced the one the first
\* meter group gave
C26_Witness ==
    \E w \in Workers :
        LET l == loc[w] IN
        /\ pc[w] = "ensure"
        /\ l.mi = 2
        /\ \E i \in 1..Len(calls[w]) :
              /\ calls[w][i].op = "create_resource"
              /\ "display_name" \in DOMAIN calls[w][i].arg
              /\ calls[w][i].arg.display_name = "a"
        /\ l.resource.display_name = "b"
        /\ l.resource_extra = [display_name |-> "b"]

\* C28: every post_measure and every create_resource call is made with
\* the resource type of the first definition, in declared order, that
\* has a pattern matching the meter at hand, create_resource with that
\* definition's metrics as well, and that definition does not have
\* ignore set: a meter whose first match is ignored is never posted,
\* though a later definition lists it by name.
C28_FirstMatchingDefinitionUsed ==
    \A w \in Workers :
        /\ \A i \in 1..Len(calls[w]) :
              calls[w][i].op = "post_measure"
              => \E k \in 1..Len(resources_definition) :
                    /\ match(resources_definition[k], calls[w][i].metric_name)
                    /\ \A j \in 1..(k - 1) :
                          ~match(resources_definition[j],
                                 calls[w][i].metric_name)
                    /\ ~resources_definition[k].ignore
                    /\ calls[w][i].resource_type =
                          resources_definition[k].resource_type
        /\ pc[w] \in Repairing
           => \E k \in 1..Len(resources_definition) :
                 /\ match(resources_definition[k], loc[w].metric_name)
                 /\ \A j \in 1..(k - 1) :
                       ~match(resources_definition[j], loc[w].metric_name)
                 /\ loc[w].resource_type =
                       resources_definition[k].resource_type
                 /\ DOMAIN loc[w].resource.metrics =
                       {resources_definition[k].metrics[j] :
                           j \in 1..Len(resources_definition[k].metrics)}

\* a dispatch of a cpu sample and an img sample is over: cpu, which the
\* generic definition matches too, was posted as a meter of an instance,
\* and img, ignored by its first match and listed by the generic
\* definition, was not posted
C28_Witness ==
    \E w \in Workers :
        /\ Over(w)
        /\ \E i \in 1..Len(loc[w].data) : loc[w].data[i].counter_name = Img
        /\ \E i \in 1..Len(calls[w]) :
              /\ calls[w][i].op = "post_measure"
              /\ calls[w][i].metric_name = Cpu
              /\ calls[w][i].resource_type = "instance"
        /\ \A i \in 1..Len(calls[w]) : calls[w][i].metric_name # Img

\* C29 as stated: during the repair of a meter group the meter name is a
\* key of the metrics map of the resource, whether a literal or a wildcard
\* pattern matched it, and no dispatch is left by the KeyError of the
\* lookup.
C29_RepairFindsArchivePolicy ==
    \A w \in Workers :
        /\ pc[w] \in Repairing
           => loc[w].metric_name \in DOMAIN loc[w].resource.metrics
        /\ result[w] # "KeyError"

\* C30: of the workers of one dispatcher at most one is between the
\* re-check of the cache under the lock and the end of the with block,
\* in the repair or in the reconciliation, and that worker is the holder
\* of the lock; and the step of a guarded call that raises releases it.
C30_GuardedSequenceExclusive ==
    /\ [](/\ \A w, v \in Workers :
               (w # v /\ proc[w] = proc[v])
               => ~(pc[w] \in Locked /\ pc[v] \in Locked)
          /\ \A w \in Workers :
               pc[w] \in Locked <=> resource_lock[proc[w]] = w)
    /\ [][\A w \in Workers :
            (/\ pc[w] \in {"ens_create", "rec_update"}
             /\ Len(calls'[w]) = Len(calls[w]) + 1
             /\ calls'[w][Len(calls'[w])].outcome # "ok")
            => resource_lock'[proc[w]] = None]_vars

\* the update_resource of a worker raised under the lock, its dispatch is
\* over, and another worker of the same dispatcher holds the lock for
\* its own update
C30_Witness ==
    \E w, v \in Workers :
        /\ w # v
        /\ proc[w] = proc[v]
        /\ conf[proc[w]].cache
        /\ Over(w)
        /\ Len(calls[w]) > 0
        /\ LastCall(w).op = "update_resource"
        /\ LastCall(w).outcome = "UnexpectedError"
        /\ resource_lock[proc[v]] = v
        /\ pc[v] = "rec_update"

(***************************************************************************)
(* Properties of the loading.                                              *)
(***************************************************************************)
\* C21: loading ends with a definition error exactly when some definition
\* of the file has a resource_type that is missing or not a string, or
\* metrics that are missing, not a list or an empty list; no cycle runs
\* after the error, and the definitions of a loaded file have a string
\* resource_type and a non-empty list of patterns.
C21_MalformedDefinitionFailsAtLoad ==
    load.status # "none"
    => /\ load.status = "DefinitionException"
          <=> \E i \in 1..Len(load.data) :
                 \/ load.data[i].resource_type.type # "str"
                 \/ load.data[i].metrics.type # "list"
                 \/ load.data[i].metrics.value = <<>>
       /\ load.status = "DefinitionException" => load.cycles = 0
       /\ \A i \in 1..Len(load.definitions) :
             /\ load.definitions[i].resource_type.type = "str"
             /\ load.definitions[i].metrics.type = "list"
             /\ load.definitions[i].metrics.value # <<>>

(***************************************************************************)
(* Properties of the pollsters.                                            *)
(***************************************************************************)
\* the instances get_samples has tried, in the order it tried them
Attempted == [k \in 1..Len(poll.attempts) |-> poll.attempts[k].id]

\* the samples of the attempts that made one
RECURSIVE SamplesOf(_, _)
SamplesOf(p, attempts) ==
    IF attempts = <<>> THEN <<>>
    ELSE (IF Body(p, Head(attempts).got) = "sample"
          THEN <<Sample(p, Head(attempts).id, Head(attempts).got)>>
          ELSE <<>>) \o SamplesOf(p, Tail(attempts))

\* C10: whatever the variant and the resource list, nothing is raised out
\* of get_samples, the resources tried are the first of the list in its
\* order, all of it once the sequence is finished, and the samples are
\* those of the resources whose sampling succeeded
C10_EveryResourceSampled ==
    /\ poll.status # "raised"
    /\ poll.status \in {"running", "exhausted"} =>
         /\ Len(Attempted) <= Len(poll.resources)
         /\ Attempted = SubSeq(poll.resources, 1, Len(Attempted))
         /\ poll.out = SamplesOf(poll.variant, poll.attempts)
    /\ poll.status = "exhausted" => Attempted = poll.resources

\* the variants that inspect their resources through the inspector
Inspecting == MemoryUsageVariants \cup MemoryInfoVariants \cup GuestVariants

\* the levels a failure of an inspection is to be logged at: debug for an
\* instance that is gone and for an inspection that is not supported,
\* warn for an instance shut off and for no data, error for the others
\* (a missing guest agent, and a NotImplementedError that is not the
\* inspector's own, are taken for either of the two)
Levels(exc) ==
    CASE exc \in {"InstanceNotFoundException",
                  "ceilometer.NotImplementedError"} -> {"debug"}
      [] exc \in {"InstanceShutOffException", "NoDataException"} -> {"warn"}
      [] exc \in {"InstanceNoQGAException", "NotImplementedError"} ->
           {"debug", "error"}
      [] OTHER -> {"error"}

\* C27 as stated: in every variant that inspects its resources, the turn
\* of the loop in which the inspection of a resource fails yields no
\* sample, goes on to the next resource, and logs the failure at the
\* level of its kind, the same in every variant, an error with the id of
\* the resource.
C27_FailuresClassifiedAlike ==
    [][(/\ poll.status = "running"
        /\ poll.variant \in Inspecting
        /\ Len(poll'.attempts) = Len(poll.attempts) + 1
        /\ poll'.attempts[Len(poll'.attempts)].got \in ExceptionClasses)
       => LET attempt == poll'.attempts[Len(poll'.attempts)]
              record == poll'.plog[Len(poll'.plog)]
          IN /\ poll'.status = "running"
             /\ poll'.i = poll.i + 1
             /\ poll'.out = poll.out
             /\ Len(poll'.plog) = Len(poll.plog) + 2
             /\ record.level \in Levels(attempt.got)
             /\ record.level = "error" => record.id = attempt.id]_vars

\* the resources handed to get_samples
Given == {poll.resources[k] : k \in 1..Len(poll.resources)}

\* C33 as stated: whatever the variant and the resource list, an empty
\* list yields nothing, no more is yielded than resources were tried, and
\* every element yielded is a sample of the variant's meter for one of
\* the given resources, no two of them for the same resource
C33_SamplesOfGivenResources ==
    /\ poll.resources = <<>> => poll.out = <<>>
    /\ Len(poll.out) <= Len(poll.attempts)
    /\ \A k \in 1..Len(poll.out) :
          /\ poll.out[k].resource_id \in Given
          /\ poll.out[k].name = MeterName(poll.variant)
    /\ \A j, k \in 1..Len(poll.out) :
          j # k => poll.out[j].resource_id # poll.out[k].resource_id

(***************************************************************************)
(* Properties of the discovery.                                            *)
(***************************************************************************)
\* this step is a discover call
Discovers == disc'.n = disc.n + 1

\* the time since last_run, once an enumeration has succeeded
Elapsed == disc.now - disc.last_run

\* C11: a discover call made after a successful enumeration while less
\* than the period has passed since last_run issues no enumeration,
\* leaves the tracked set and last_run as they are and returns the
\* tracked set, which is what the call before it returned
C11_NoEnumerationWithinPeriod ==
    [][(/\ Discovers
        /\ disc.last_run # NoTime
        /\ Elapsed < instance_query_period)
       => /\ disc'.did = "cached"
          /\ ~disc'.raised
          /\ disc'.instances = disc.instances
          /\ disc'.last_run = disc.last_run
          /\ disc'.returned = Values(disc.instances)
          /\ (disc.did # "nothing" /\ ~disc.raised)
                => disc'.returned = disc.returned]_vars

C11_Witness ==
    /\ disc.did = "cached"
    /\ disc.n >= 2
    /\ disc.now > disc.last_run
    /\ Elapsed < instance_query_period
    /\ disc.returned # {}

\* C12: a discover call made after a successful enumeration when the
\* period or more has passed since last_run, whether exactly the period
\* or more than a day, asks once for the changes since last_run, and
\* unless that raises applies them to the tracked set and sets last_run
\* to the current time
C12_EnumerationOncePeriodPassed ==
    [][(/\ Discovers
        /\ disc.last_run # NoTime
        /\ Elapsed >= instance_query_period)
       => /\ disc'.did = "since"
          /\ disc'.since = disc.last_run
          /\ ~disc'.raised => disc'.last_run = disc.now]_vars

\* C13: the tracked set holds exactly the instances whose last reported
\* vm_state is neither 'deleted' nor 'error', each as it was last reported
C13_NoTerminalTracked ==
    \A i \in DiscIds :
        /\ i \in DOMAIN disc.instances
              <=> disc.reported[i] \notin {"unreported", "deleted", "error"}
        /\ i \in DOMAIN disc.instances
              => disc.instances[i] = Instance(i, disc.reported[i])

C13_Witness ==
    /\ disc.did = "since"
    /\ ~disc.raised
    /\ disc.reported["i1"] = "error"
    /\ disc.reported["i2"] = "active"
    /\ DOMAIN disc.instances = {"i2"}

\* C22: a discover call that does not raise returns the whole tracked set
\* as it is after the call's refresh, so every instance tracked before the
\* call that the call's enumeration did not mention is returned, as it
\* was tracked.
C22_ReturnsWholeTrackedSet ==
    [][(Discovers /\ ~disc'.raised)
       => /\ disc'.returned =
               {disc'.instances[i] : i \in DOMAIN disc'.instances}
          /\ \A i \in DOMAIN disc.instances \ disc'.mentioned :
                /\ i \in DOMAIN disc'.instances
                /\ disc.instances[i] \in disc'.returned]_vars

\* an incremental enumeration mentioned i2 alone, and i1, tracked since
\* an earlier call, is returned with it
C22_Witness ==
    /\ disc.did = "since"
    /\ ~disc.raised
    /\ disc.mentioned = {"i2"}
    /\ Cardinality(disc.returned) = 2
    /\ \E x \in disc.returned : x.id = "i1"

\* C31: a discover call whose enumeration raises leaves the tracked set
\* and last_run as they were, and the discover call after it makes the
\* same kind of enumeration: a full one if none has succeeded, otherwise
\* one for the changes since the same last_run
C31_RaiseLeavesStateAndKind ==
    [][/\ (Discovers /\ disc'.raised)
          => /\ disc'.instances = disc.instances
             /\ disc'.last_run = disc.last_run
       /\ (Discovers /\ disc.raised)
          => /\ disc'.did = disc.did
             /\ disc'.since = disc.since]_vars

\* C32: a tracked instance leaves the tracked set only in a discover
\* call whose enumeration returns it with vm_state 'deleted' or 'error';
\* an instance the enumeration did not return, or no enumeration at all,
\* leaves it tracked as it was
C32_LeavesOnlyWhenReportedTerminal ==
    [][\A i \in DOMAIN disc.instances :
          /\ i \notin DOMAIN disc'.instances
                => /\ Discovers
                   /\ disc'.did \in {"full", "since"}
                   /\ ~disc'.raised
                   /\ i \in disc'.mentioned
                   /\ disc'.reported[i] \in {"deleted", "error"}
          /\ i \notin disc'.mentioned
                => /\ i \in DOMAIN disc'.instances
                   /\ disc'.instances[i] = disc.instances[i]]_vars

\* the third call's enumeration reports i2 deleted and does not return
\* i1, which stays tracked
C32_Witness ==
    /\ disc.n >= 3
    /\ disc.did = "since"
    /\ ~disc.raised
    /\ disc.mentioned = {"i2"}
    /\ disc.reported["i2"] = "deleted"
    /\ DOMAIN disc.instances = {"i1"}

(***************************************************************************)
(* Properties of the agent manager.                                        *)
(***************************************************************************)
\* this step is an access to manager.keystone
Accesses == ks'.cycle = ks.cycle /\ ks'.accesses = ks.accesses + 1

\* C14: between two resets at most one get_client call is made: every
\* access after the first of the cycle makes none and ends as the first
\* did, returning the same client or raising the same exception
C14_OneAcquisitionPerCycle ==
    [][/\ ks'.acquired <= 1
       /\ (Accesses /\ ks.accesses > 0)
          => /\ ks'.acquisitions = ks.acquisitions
             /\ ks'.got = ks.got
             /\ ks'.value = ks.value
             /\ ks'.value = IF ks.got = "client" THEN ks.keystone
                            ELSE ks.last_exception]_vars

C14_Witness ==
    /\ ks.accesses >= 2
    /\ ks.acquired = 1
    /\ ks.got = "raised"
    /\ ks.value = ks.last_exception
    /\ ks.keystone = NoClient

\* C15: interval_task leaves neither a client nor an exception behind,
\* so the first access of a cycle makes a get_client call of its own,
\* whether the cycle before ended with a client or with an exception
C15_FreshAcquisitionEveryCycle ==
    [][/\ ks'.cycle = ks.cycle + 1
          => ks'.keystone = NoClient /\ ks'.last_exception = NoClient
       /\ (Accesses /\ ks.accesses = 0)
          => /\ ks'.acquisitions = ks.acquisitions + 1
             /\ ks'.value = ks'.acquisitions]_vars

C15_Witness ==
    /\ ks.cycle >= 1
    /\ ks.accesses = 1
    /\ ks.acquisitions >= 2
    /\ ks.got = "client"
    /\ ks.value = ks.acquisitions

=============================================================================
